---- MODULE Spec2Model ----
(***************************************************************************)
(* Prompt-Manager-Pro: the database layer (db.js, a Dexie/IndexedDB        *)
(* wrapper) with its prompt and version tables, version labelling,         *)
(* rollback, hard/soft delete and the merge import; the line diff of the   *)
(* diff view; the crypto module and the backup to Google Drive.            *)
(*                                                                         *)
(* Records are TLA+ functions from field names to values, so that a        *)
(* partial update ({...updates, updatedAt: now}) is a function merge.      *)
(* Ids (crypto.randomUUID) are small integers; their order stands for the  *)
(* lexical order of the UUID strings, which is what the primary-key index  *)
(* of IndexedDB sorts by.                                                  *)
(***************************************************************************)
EXTENDS Integers, Sequences, FiniteSets, TLC

VARIABLES prompts, versions, clock, pc, imp, last, budget, file,
          oldLines, newLines, diff, loop,
          encryptionKey, salt, encryptionSalt, encryptionEnabled,
          accessToken, ready, backupFile,
          calls, inflight,
          second,
          events, stack, invoked,
          remote

\* the diff view: the lines handed to computeDiff, what it returned, and its
\* locals while it runs
diffVars == <<oldLines, newLines, diff, loop>>

\* the crypto module: its key and salt in memory, the item encryptionSalt of
\* localStorage and settings.encryption.enabled
cryptoVars == <<encryptionKey, salt, encryptionSalt, encryptionEnabled>>

\* the Drive adapter: its token and ready flag, and the backup file on Drive
driveVars == <<accessToken, ready, backupFile>>

\* the application: the calls of createVersion the editor has in flight, and
\* the createPrompt or deletePrompt that is between two of its writes
appVars == <<calls, inflight>>

\* the event bus: the callbacks of one event (this.events.get(event)), the
\* emits and callbacks that are running, and the callbacks invoked so far
busVars == <<events, stack, invoked>>

\* what stands beside the store: the store of a second device, the event bus
\* and the user's collections in Firestore
auxVars == <<second, busVars, remote>>

vars == <<prompts, versions, clock, pc, imp, last, budget, file, diffVars, cryptoVars, driveVars, appVars, auxVars>>

(***************************************************************************)
(* Bounds of the model                                                     *)
(***************************************************************************)
MaxPrompts == 2
MaxVersions == 3
MaxClock == 1
MaxCalls == 2
MaxCallsV == 3
MaxLines == 3
MaxCallsB == 3
MaxCallsU == 4
MaxCallbacks == 2

PromptIds == 1..MaxPrompts
VersionIds == 1..MaxVersions
Times == 0..MaxClock

(***************************************************************************)
(* JavaScript values                                                       *)
(***************************************************************************)
\* the JavaScript value undefined (an absent argument or field)
Undefined == "<undefined>"

\* x || d on strings: undefined and '' are falsy
OrDefault(x, d) == IF x = Undefined \/ x = "" THEN d ELSE x

\* d.f, undefined when the field is absent
Field(d, f) == IF f \in DOMAIN d THEN d[f] ELSE Undefined

\* {...a, ...b}: the fields of b override those of a
Spread(a, b) == [f \in (DOMAIN a) \cup (DOMAIN b) |-> IF f \in DOMAIN b THEN b[f] ELSE a[f]]

\* the object {}
EmptyObject == [f \in {} |-> 0]

(***************************************************************************)
(* Dexie tables: a table is a function from primary keys to records        *)
(***************************************************************************)
EmptyTable == [k \in {} |-> EmptyObject]

\* Table.add resolves only when the primary key is free (ConstraintError otherwise)
CanAdd(t, k) == k \notin DOMAIN t

TableAdd(t, k, r) == [x \in (DOMAIN t) \cup {k} |-> IF x = k THEN r ELSE t[x]]

\* Table.put in place of Table.update: the record is replaced by the changes
TableUpdateReplace(t, k, changes) == IF k \in DOMAIN t THEN [t EXCEPT ![k] = changes] ELSE t

\* Table.update(key, changes): modifies the record if it exists, resolves 0 otherwise
TableUpdate(t, k, changes) == IF k \in DOMAIN t THEN [t EXCEPT ![k] = Spread(@, changes)] ELSE t

\* Table.delete(key)
TableDelete(t, k) == [x \in (DOMAIN t) \ {k} |-> t[x]]

\* db.versions.where('promptId').equals(promptId): the keys of the matching records
WherePromptId(vs, promptId) == {k \in DOMAIN vs : vs[k].promptId = promptId}

(***************************************************************************)
(* Inputs                                                                  *)
(***************************************************************************)
Contents == {"B"}

\* the promptData objects handed to createPrompt
PromptDataSet == {EmptyObject, [title |-> "T", content |-> "A", notes |-> "n", tags |-> <<"x">>]}

\* the partial updates handed to updatePrompt and updateVersion
PromptUpdates == {[title |-> "T2"]}

VersionUpdates == {[content |-> "E"]}

\* a prompt record of an import document
DocPrompt(p) == [id |-> p, title |-> "Imported", description |-> "", tags |-> <<>>, createdAt |-> 0, updatedAt |-> 1, archived |-> FALSE]

\* a version record of an import document, labelled v<n>
DocVersion(i, p, n) == [id |-> i, promptId |-> p, version |-> "v" \o ToString(n), content |-> "I", notes |-> "", createdAt |-> 0, updatedAt |-> 0]

Doc(ps, vs) == [prompts |-> ps, versions |-> vs]

EmptyDoc == Doc(<<>>, <<>>)

\* the import documents: an empty one, one prompt with two versions, a version
\* id listed twice, a version id listed under two prompts, a prompt listed
\* twice, two prompts, a version of a prompt the document does not list, and
\* two documents that lack a top-level array
Docs == {EmptyDoc,
         Doc(<<DocPrompt(1)>>, <<DocVersion(1, 1, 1), DocVersion(2, 1, 2)>>),
         Doc(<<DocPrompt(1), DocPrompt(2)>>, <<DocVersion(1, 1, 1), DocVersion(1, 1, 1)>>),
         Doc(<<DocPrompt(1), DocPrompt(2)>>, <<DocVersion(1, 1, 1), DocVersion(1, 2, 1)>>),
         Doc(<<DocPrompt(2)>>, <<DocVersion(1, 2, 1)>>),
         Doc(<<DocPrompt(1), DocPrompt(1)>>, <<DocVersion(2, 1, 1)>>),
         Doc(<<DocPrompt(1), DocPrompt(2)>>, <<DocVersion(1, 1, 1), DocVersion(2, 2, 1)>>),
         Doc(<<DocPrompt(2)>>, <<DocVersion(1, 1, 1), DocVersion(3, 2, 1)>>),
         [prompts |-> <<>>],
         [versions |-> <<>>]}

(***************************************************************************)
(* The record of the last completed call and of the import in progress     *)
(***************************************************************************)
ZeroCounts == [imported |-> 0, skipped |-> 0, merged |-> 0]

NoDoc == EmptyObject

\* op: the function called; ok: FALSE when it threw; id: its id argument;
\* ret: the id it returned; err: the message of the error thrown; decrypt:
\* restore has called decryptData; counts, data,
\* merge: importData's result and arguments; data is also createPrompt's argument
Call(op, ok, id, ret) == [op |-> op, ok |-> ok, id |-> id, ret |-> ret, err |-> "", hard |-> FALSE, decrypt |-> FALSE, counts |-> ZeroCounts, data |-> NoDoc, merge |-> FALSE]

\* before: the tables as they were when importData was called
NoImport == [data |-> NoDoc, merge |-> FALSE, k |-> 0, imported |-> 0, skipped |-> 0, merged |-> 0, before |-> [prompts |-> EmptyTable, versions |-> EmptyTable]]

(***************************************************************************)
(* db.js: prompts                                                          *)
(***************************************************************************)
\* updatePrompt(id, updates) with Date.now() = t, on the prompts table ps
UpdatePromptIn(ps, id, updates, t) == TableUpdate(ps, id, Spread(updates, [updatedAt |-> t]))

\* a count over the whole versions table instead of the versions of promptId
VersionNumberOfTable(vs, promptId) == Cardinality(DOMAIN vs) + 1

\* the number of the next version of promptId: existingVersions.length + 1
VersionNumber(vs, promptId) == Cardinality(WherePromptId(vs, promptId)) + 1

\* `v${versionNumber}`
VersionString(n) == "v" \o ToString(n)

\* the record createVersion builds
NewVersion(vs, id, promptId, content, notes, now) == [id |-> id, promptId |-> promptId, version |-> VersionString(VersionNumber(vs, promptId)), content |-> OrDefault(content, ""), notes |-> OrDefault(notes, ""), createdAt |-> now, updatedAt |-> now]

\* createVersion on the tables ps, vs with the fresh id and the two clock readings
CreateVersionOn(ps, vs, id, promptId, content, notes, now, t2) == [versions |-> TableAdd(vs, id, NewVersion(vs, id, promptId, content, notes, now)), prompts |-> UpdatePromptIn(ps, promptId, EmptyObject, t2)]

\* the prompt record without the defaults of title and tags
NewPromptNoDefaults(id, data, now) == [id |-> id, title |-> Field(data, "title"), description |-> OrDefault(Field(data, "description"), ""), tags |-> Field(data, "tags"), createdAt |-> now, updatedAt |-> now, archived |-> FALSE]

\* the record createPrompt builds
NewPrompt(id, data, now) == [id |-> id, title |-> OrDefault(Field(data, "title"), "Untitled Prompt"), description |-> OrDefault(Field(data, "description"), ""), tags |-> IF "tags" \in DOMAIN data THEN data.tags ELSE <<>>, createdAt |-> now, updatedAt |-> now, archived |-> FALSE]

\* the cursor of the promptId index opened in direction 'prev' (Collection.reverse):
\* the records of one promptId come by descending primary key
RECURSIVE IndexScanPrev(_, _)
IndexScanPrev(vs, keys) ==
    IF keys = {} THEN <<>>
    ELSE LET top == CHOOSE k \in keys : \A other \in keys : other <= k IN
         <<vs[top]>> \o IndexScanPrev(vs, keys \ {top})

\* Array.sort with the sorter of a reversed collection (descending createdAt);
\* the sort is stable, so r, which came later, goes behind its equals
InsertDesc(sorted, r) ==
    LET n == Cardinality({i \in 1..Len(sorted) : sorted[i].createdAt >= r.createdAt}) IN
    SubSeq(sorted, 1, n) \o <<r>> \o SubSeq(sorted, n + 1, Len(sorted))

RECURSIVE SortByCreatedAtDesc(_, _)
SortByCreatedAtDesc(sorted, rest) == IF rest = <<>> THEN sorted ELSE SortByCreatedAtDesc(InsertDesc(sorted, Head(rest)), Tail(rest))

\* getVersionsByPrompt: where('promptId').equals(promptId).reverse().sortBy('createdAt')
GetVersionsByPrompt(vs, promptId) == SortByCreatedAtDesc(<<>>, IndexScanPrev(vs, WherePromptId(vs, promptId)))

\* JavaScript null
Null == EmptyObject

GetLatestVersion(vs, promptId) == LET list == GetVersionsByPrompt(vs, promptId) IN IF Len(list) > 0 THEN list[1] ELSE Null

\* the prompt ids in use: those of the prompts and those the versions refer to
UsedPromptIds(ps, vs) == (DOMAIN ps) \cup {vs[k].promptId : k \in DOMAIN vs}

\* crypto.randomUUID() for a prompt: an id that is not in use; no code orders
\* prompts by id, so the smallest such id stands for any of them
FreshPromptId(ps, vs) == {id \in PromptIds \ UsedPromptIds(ps, vs) : \A other \in PromptIds \ UsedPromptIds(ps, vs) : id <= other}

InitStore ==
    /\ prompts = EmptyTable
    /\ versions = EmptyTable
    /\ clock = 0
    /\ pc = "idle"
    /\ imp = NoImport
    /\ last = Call("none", TRUE, 0, 0)

\* file: the document the user has at hand for importData;
\* budget: the number of calls the behaviour may still make
\* the diff view is not open
NoDiff == [done |-> FALSE, lines |-> <<>>]

\* computeDiff is not running; i and j are counted from 1, n counts the
\* iterations of its loop
NoLoop == [on |-> FALSE, i |-> 1, j |-> 1, result |-> <<>>, n |-> 0]

InitDiff == oldLines = <<>> /\ newLines = <<>> /\ diff = NoDiff /\ loop = NoLoop

\* localStorage.getItem of an absent item and the salt before initEncryption
NoSalt == 0

\* accessToken = null
NoToken == "<null>"

\* encryption is off
InitCrypto == encryptionKey = Null /\ salt = NoSalt /\ encryptionSalt = NoSalt /\ encryptionEnabled = FALSE

\* not signed in, nothing backed up
InitDrive == accessToken = NoToken /\ ready = FALSE /\ backupFile = Null

\* the activations of the editor's handlers that can be in flight at once
Activations == {1, 2}

\* no call of createVersion is in flight for the activation
NoCall == [pc |-> "idle", promptId |-> 0, content |-> "", notes |-> "", id |-> 0, now |-> 0, version |-> Null]

\* neither createPrompt nor deletePrompt is running
NoOp == [op |-> "none", at |-> "", id |-> 0, data |-> EmptyObject]

InitApp == calls = [a \in Activations |-> NoCall] /\ inflight = NoOp

\* nothing was brought to a second device
NoStore == [done |-> FALSE, data |-> NoDoc, merge |-> FALSE, ok |-> TRUE, prompts |-> EmptyTable, versions |-> EmptyTable, counts |-> ZeroCounts]

\* new EventBus(): no callback, nothing running
InitBus == events = <<>> /\ stack = <<>> /\ invoked = <<>>

InitAux == second = NoStore /\ InitBus /\ remote = NoStore

InitOthers == InitDiff /\ InitCrypto /\ InitDrive /\ InitApp /\ InitAux

Init == InitStore /\ InitOthers /\ file \in Docs /\ budget = MaxCalls

InitV == InitStore /\ InitOthers /\ file = EmptyDoc /\ budget = MaxCallsV

\* a call is made
Spend == budget > 0 /\ budget' = budget - 1 /\ file' = file /\ UNCHANGED <<diffVars, auxVars, appVars>>

\* a function of the database module is called
Charge == Spend /\ UNCHANGED <<cryptoVars, driveVars>>

CreatePrompt(data) ==
    /\ pc = "idle"
    /\ Charge
    /\ \E id \in FreshPromptId(prompts, versions), now \in clock..MaxClock :
        /\ IF OrDefault(Field(data, "content"), "") # ""
           THEN \E vid \in VersionIds \ DOMAIN versions, t1 \in now..MaxClock :
                  \E t2 \in t1..MaxClock :
                    LET r == CreateVersionOn(TableAdd(prompts, id, NewPrompt(id, data, now)), versions, vid, id, data.content, Field(data, "notes"), t1, t2) IN
                    /\ prompts' = r.prompts
                    /\ versions' = r.versions
                    /\ clock' = t2
           ELSE /\ prompts' = TableAdd(prompts, id, NewPrompt(id, data, now))
                /\ versions' = versions
                /\ clock' = now
        /\ last' = [Call("createPrompt", TRUE, 0, id) EXCEPT !.data = data]
    /\ UNCHANGED <<pc, imp>>

UpdatePrompt(id, updates) ==
    /\ pc = "idle"
    /\ Charge
    /\ \E t \in clock..MaxClock :
        /\ prompts' = UpdatePromptIn(prompts, id, updates, t)
        /\ clock' = t
    /\ last' = Call("updatePrompt", TRUE, id, 0)
    /\ UNCHANGED <<versions, pc, imp>>

\* a hard delete that leaves the versions of the prompt behind
DeletePromptOnly(id, hard) ==
    /\ pc = "idle"
    /\ Charge
    /\ IF hard
       THEN /\ prompts' = TableDelete(prompts, id)
            /\ UNCHANGED <<versions, clock>>
       ELSE /\ \E t \in clock..MaxClock :
                 /\ prompts' = UpdatePromptIn(prompts, id, [archived |-> TRUE], t)
                 /\ clock' = t
            /\ versions' = versions
    /\ last' = [Call("deletePrompt", TRUE, id, 0) EXCEPT !.hard = hard]
    /\ UNCHANGED <<pc, imp>>

DeletePrompt(id, hard) ==
    /\ pc = "idle"
    /\ Charge
    /\ IF hard
       THEN /\ versions' = [k \in (DOMAIN versions) \ WherePromptId(versions, id) |-> versions[k]]
            /\ prompts' = TableDelete(prompts, id)
            /\ clock' = clock
       ELSE /\ \E t \in clock..MaxClock :
                 /\ prompts' = UpdatePromptIn(prompts, id, [archived |-> TRUE], t)
                 /\ clock' = t
            /\ versions' = versions
    /\ last' = [Call("deletePrompt", TRUE, id, 0) EXCEPT !.hard = hard]
    /\ UNCHANGED <<pc, imp>>

CreateVersion(promptId, content, notes) ==
    /\ pc = "idle"
    /\ Charge
    /\ \E id \in VersionIds \ DOMAIN versions, now \in clock..MaxClock :
        \E t2 \in now..MaxClock :
          LET r == CreateVersionOn(prompts, versions, id, promptId, content, notes, now, t2) IN
          /\ prompts' = r.prompts
          /\ versions' = r.versions
          /\ clock' = t2
          /\ last' = Call("createVersion", TRUE, promptId, id)
    /\ UNCHANGED <<pc, imp>>

UpdateVersion(id, updates) ==
    /\ pc = "idle"
    /\ Charge
    /\ \E t \in clock..MaxClock :
        /\ versions' = TableUpdate(versions, id, Spread(updates, [updatedAt |-> t]))
        /\ clock' = t
    /\ last' = Call("updateVersion", TRUE, id, 0)
    /\ UNCHANGED <<prompts, pc, imp>>

DeleteVersion(id) ==
    /\ pc = "idle"
    /\ Charge
    /\ versions' = TableDelete(versions, id)
    /\ last' = Call("deleteVersion", TRUE, id, 0)
    /\ UNCHANGED <<prompts, clock, pc, imp>>

\* a rollback that returns without a word when the version is not stored
RollbackToVersionSilent(versionId) ==
    /\ pc = "idle"
    /\ Charge
    /\ IF versionId \notin DOMAIN versions
       THEN /\ last' = Call("rollbackToVersion", TRUE, versionId, 0)
            /\ UNCHANGED <<prompts, versions, clock>>
       ELSE LET oldVersion == versions[versionId] IN
            \E id \in VersionIds \ DOMAIN versions, now \in clock..MaxClock :
              \E t2 \in now..MaxClock :
                LET r == CreateVersionOn(prompts, versions, id, oldVersion.promptId, oldVersion.content, "Rollback to " \o oldVersion.version, now, t2) IN
                /\ prompts' = r.prompts
                /\ versions' = r.versions
                /\ clock' = t2
                /\ last' = Call("rollbackToVersion", TRUE, versionId, id)
    /\ UNCHANGED <<pc, imp>>

\* a rollback that rewrites the old version instead of adding one
RollbackToVersionInPlace(versionId) ==
    /\ pc = "idle"
    /\ Charge
    /\ versionId \in DOMAIN versions
    /\ \E now \in clock..MaxClock :
        /\ versions' = TableUpdate(versions, versionId, [notes |-> "Rollback to " \o versions[versionId].version, createdAt |-> now, updatedAt |-> now])
        /\ prompts' = UpdatePromptIn(prompts, versions[versionId].promptId, EmptyObject, now)
        /\ clock' = now
    /\ last' = Call("rollbackToVersion", TRUE, versionId, versionId)
    /\ UNCHANGED <<pc, imp>>

RollbackToVersion(versionId) ==
    /\ pc = "idle"
    /\ Charge
    /\ IF versionId \notin DOMAIN versions
       THEN /\ last' = [Call("rollbackToVersion", FALSE, versionId, 0) EXCEPT !.err = "Version not found"]
            /\ UNCHANGED <<prompts, versions, clock>>
       ELSE LET oldVersion == versions[versionId] IN
            \E id \in VersionIds \ DOMAIN versions, now \in clock..MaxClock :
              \E t2 \in now..MaxClock :
                LET r == CreateVersionOn(prompts, versions, id, oldVersion.promptId, oldVersion.content, "Rollback to " \o oldVersion.version, now, t2) IN
                /\ prompts' = r.prompts
                /\ versions' = r.versions
                /\ clock' = t2
                /\ last' = Call("rollbackToVersion", TRUE, versionId, id)
    /\ UNCHANGED <<pc, imp>>

ClearAllData ==
    /\ pc = "idle"
    /\ Charge
    /\ prompts' = EmptyTable
    /\ versions' = EmptyTable
    /\ last' = Call("clearAllData", TRUE, 0, 0)
    /\ UNCHANGED <<clock, pc, imp>>

(***************************************************************************)
(* db.js: importData, one step per iteration of its loop over data.prompts *)
(***************************************************************************)
\* Array.filter on a sequence
RECURSIVE Filter(_, _)
Filter(seq, promptId) == IF seq = <<>> THEN <<>> ELSE IF Head(seq).promptId = promptId THEN <<Head(seq)>> \o Filter(Tail(seq), promptId) ELSE Filter(Tail(seq), promptId)

\* existingVersions.some(v => v.id === id)
VersionExists(existingVersions, id) == \E i \in 1..Len(existingVersions) : existingVersions[i].id = id

\* the merge loop with db.versions.put in place of add: a taken id is overwritten
RECURSIVE MergeVersionsPut(_, _, _, _)
MergeVersionsPut(vs, existingVersions, list, merged) ==
    IF list = <<>> THEN [versions |-> vs, merged |-> merged, ok |-> TRUE]
    ELSE LET version == Head(list) IN
         IF VersionExists(existingVersions, version.id) THEN MergeVersionsPut(vs, existingVersions, Tail(list), merged)
         ELSE MergeVersionsPut(TableAdd(vs, version.id, version), existingVersions, Tail(list), merged + 1)

\* the merge loop with merged++ outside the if
RECURSIVE MergeVersionsCountAll(_, _, _, _)
MergeVersionsCountAll(vs, existingVersions, list, merged) ==
    IF list = <<>> THEN [versions |-> vs, merged |-> merged, ok |-> TRUE]
    ELSE LET version == Head(list) IN
         IF VersionExists(existingVersions, version.id) THEN MergeVersionsCountAll(vs, existingVersions, Tail(list), merged + 1)
         ELSE IF CanAdd(vs, version.id) THEN MergeVersionsCountAll(TableAdd(vs, version.id, version), existingVersions, Tail(list), merged + 1)
         ELSE [versions |-> vs, merged |-> merged, ok |-> FALSE]

\* the loop `for (const version of importVersions)` of the merge branch over the
\* rest of the list: existingVersions is the list read before the loop; a
\* rejected add ends the import with what was written so far
RECURSIVE MergeVersions(_, _, _, _)
MergeVersions(vs, existingVersions, list, merged) ==
    IF list = <<>> THEN [versions |-> vs, merged |-> merged, ok |-> TRUE]
    ELSE LET version == Head(list) IN
         IF VersionExists(existingVersions, version.id) THEN MergeVersions(vs, existingVersions, Tail(list), merged)
         ELSE IF CanAdd(vs, version.id) THEN MergeVersions(TableAdd(vs, version.id, version), existingVersions, Tail(list), merged + 1)
         ELSE [versions |-> vs, merged |-> merged, ok |-> FALSE]

\* the new-prompt loop passing over a version whose id is taken
RECURSIVE AddVersionsSkipTaken(_, _)
AddVersionsSkipTaken(vs, list) ==
    IF list = <<>> THEN [versions |-> vs, ok |-> TRUE]
    ELSE IF CanAdd(vs, Head(list).id) THEN AddVersionsSkipTaken(TableAdd(vs, Head(list).id, Head(list)), Tail(list))
    ELSE AddVersionsSkipTaken(vs, Tail(list))

\* the new-prompt loop with db.versions.put in place of add
RECURSIVE AddVersionsPut(_, _)
AddVersionsPut(vs, list) ==
    IF list = <<>> THEN [versions |-> vs, ok |-> TRUE]
    ELSE AddVersionsPut(TableAdd(vs, Head(list).id, Head(list)), Tail(list))

\* the loop `for (const version of versions)` of the new-prompt branch
RECURSIVE AddVersions(_, _)
AddVersions(vs, list) ==
    IF list = <<>> THEN [versions |-> vs, ok |-> TRUE]
    ELSE IF CanAdd(vs, Head(list).id) THEN AddVersions(TableAdd(vs, Head(list).id, Head(list)), Tail(list))
    ELSE [versions |-> vs, ok |-> FALSE]

\* an iteration whose merge keeps the updatedAt of the incoming prompt
ImportPromptIncomingStamp(ps, vs, data, merge, prompt, t) ==
    LET existing == prompt.id \in DOMAIN ps IN
    IF existing /\ ~merge
    THEN [prompts |-> ps, versions |-> vs, ok |-> TRUE, now |-> FALSE, imported |-> 0, skipped |-> 1, merged |-> 0]
    ELSE IF existing /\ merge
    THEN LET m == MergeVersions(vs, GetVersionsByPrompt(vs, prompt.id), Filter(data.versions, prompt.id), 0) IN
         [prompts |-> IF m.ok THEN TableUpdate(ps, prompt.id, prompt) ELSE ps, versions |-> m.versions, ok |-> m.ok, now |-> m.ok, imported |-> 0, skipped |-> 0, merged |-> m.merged]
    ELSE LET a == AddVersions(vs, Filter(data.versions, prompt.id)) IN
         [prompts |-> TableAdd(ps, prompt.id, prompt), versions |-> a.versions, ok |-> a.ok, now |-> FALSE, imported |-> IF a.ok THEN 1 ELSE 0, skipped |-> 0, merged |-> 0]

\* an iteration without the `existing && !merge` branch: merge is taken as true
ImportPromptNoSkip(ps, vs, data, merge, prompt, t) ==
    IF prompt.id \in DOMAIN ps
    THEN LET m == MergeVersions(vs, GetVersionsByPrompt(vs, prompt.id), Filter(data.versions, prompt.id), 0) IN
         [prompts |-> IF m.ok THEN TableUpdate(ps, prompt.id, Spread(prompt, [updatedAt |-> t])) ELSE ps, versions |-> m.versions, ok |-> m.ok, now |-> m.ok, imported |-> 0, skipped |-> 0, merged |-> m.merged]
    ELSE LET a == AddVersions(vs, Filter(data.versions, prompt.id)) IN
         [prompts |-> TableAdd(ps, prompt.id, prompt), versions |-> a.versions, ok |-> a.ok, now |-> FALSE, imported |-> IF a.ok THEN 1 ELSE 0, skipped |-> 0, merged |-> 0]

\* one iteration of `for (const prompt of data.prompts)`; t is the reading of
\* Date.now() where the iteration takes one (now)
ImportPrompt(ps, vs, data, merge, prompt, t) ==
    LET existing == prompt.id \in DOMAIN ps IN
    IF existing /\ ~merge
    THEN [prompts |-> ps, versions |-> vs, ok |-> TRUE, now |-> FALSE, imported |-> 0, skipped |-> 1, merged |-> 0]
    ELSE IF existing /\ merge
    THEN LET m == MergeVersions(vs, GetVersionsByPrompt(vs, prompt.id), Filter(data.versions, prompt.id), 0) IN
         [prompts |-> IF m.ok THEN TableUpdate(ps, prompt.id, Spread(prompt, [updatedAt |-> t])) ELSE ps, versions |-> m.versions, ok |-> m.ok, now |-> m.ok, imported |-> 0, skipped |-> 0, merged |-> m.merged]
    ELSE LET a == AddVersions(vs, Filter(data.versions, prompt.id)) IN
         [prompts |-> TableAdd(ps, prompt.id, prompt), versions |-> a.versions, ok |-> a.ok, now |-> FALSE, imported |-> IF a.ok THEN 1 ELSE 0, skipped |-> 0, merged |-> 0]

ImportCall(ok) == [Call("importData", ok, 0, 0) EXCEPT !.data = imp.data, !.merge = imp.merge, !.err = IF ok THEN "" ELSE "ConstraintError"]

\* an importData that takes an absent array for an empty one
ImportStartLenient(data, merge) ==
    /\ pc = "idle"
    /\ Charge
    /\ pc' = "import"
    /\ imp' = [data |-> Doc(OrDefault(Field(data, "prompts"), <<>>), OrDefault(Field(data, "versions"), <<>>)), merge |-> merge, k |-> 1, imported |-> 0, skipped |-> 0, merged |-> 0, before |-> [prompts |-> prompts, versions |-> versions]]
    /\ last' = last
    /\ UNCHANGED <<prompts, versions, clock>>

\* the call and the format check
ImportStart(data, merge) ==
    /\ pc = "idle"
    /\ Charge
    /\ IF "prompts" \notin DOMAIN data \/ "versions" \notin DOMAIN data
       THEN /\ last' = [Call("importData", FALSE, 0, 0) EXCEPT !.data = data, !.merge = merge, !.err = "Invalid import data format"]
            /\ UNCHANGED <<pc, imp>>
       ELSE /\ pc' = "import"
            /\ imp' = [data |-> data, merge |-> merge, k |-> 1, imported |-> 0, skipped |-> 0, merged |-> 0, before |-> [prompts |-> prompts, versions |-> versions]]
            /\ last' = last
    /\ UNCHANGED <<prompts, versions, clock>>

\* an importData inside a transaction: a rejected insert undoes what the call wrote
ImportStepAtomic ==
    /\ pc = "import"
    /\ imp.k <= Len(imp.data.prompts)
    /\ UNCHANGED <<budget, file, diffVars, auxVars, appVars, cryptoVars, driveVars>>
    /\ \E t \in clock..MaxClock :
        LET r == ImportPrompt(prompts, versions, imp.data, imp.merge, imp.data.prompts[imp.k], t) IN
        /\ ~r.now => t = clock
        /\ prompts' = IF r.ok THEN r.prompts ELSE imp.before.prompts
        /\ versions' = IF r.ok THEN r.versions ELSE imp.before.versions
        /\ clock' = t
        /\ IF r.ok
           THEN /\ imp' = [imp EXCEPT !.k = @ + 1, !.imported = @ + r.imported, !.skipped = @ + r.skipped, !.merged = @ + r.merged]
                /\ UNCHANGED <<pc, last>>
           ELSE /\ imp' = NoImport
                /\ pc' = "idle"
                /\ last' = ImportCall(FALSE)

\* importData is about to run an iteration of its loop
AtPromptOfImport == pc = "import" /\ imp.k <= Len(imp.data.prompts)

\* one iteration of the loop; a rejected insert throws out of importData
ImportStep ==
    /\ pc = "import"
    /\ imp.k <= Len(imp.data.prompts)
    /\ UNCHANGED <<budget, file, diffVars, auxVars, appVars, cryptoVars, driveVars>>
    /\ \E t \in clock..MaxClock :
        LET r == ImportPrompt(prompts, versions, imp.data, imp.merge, imp.data.prompts[imp.k], t) IN
        /\ ~r.now => t = clock
        /\ prompts' = r.prompts
        /\ versions' = r.versions
        /\ clock' = t
        /\ IF r.ok
           THEN /\ imp' = [imp EXCEPT !.k = @ + 1, !.imported = @ + r.imported, !.skipped = @ + r.skipped, !.merged = @ + r.merged]
                /\ UNCHANGED <<pc, last>>
           ELSE /\ imp' = NoImport
                /\ pc' = "idle"
                /\ last' = ImportCall(FALSE)

\* return { imported, skipped, merged }
ImportReturn ==
    /\ pc = "import"
    /\ imp.k > Len(imp.data.prompts)
    /\ pc' = "idle"
    /\ last' = [ImportCall(TRUE) EXCEPT !.counts = [imported |-> imp.imported, skipped |-> imp.skipped, merged |-> imp.merged]]
    /\ imp' = NoImport
    /\ UNCHANGED <<prompts, versions, clock, budget, file, diffVars, auxVars, appVars, cryptoVars, driveVars>>

(***************************************************************************)
(* Specifications: calls are made one at a time; a behaviour of the        *)
(* versioning service makes at most MaxCallsV calls, one with the import   *)
(* or with every exported function at most MaxCalls (the budget).          *)
(***************************************************************************)
\* the versioning service
NextV ==
    \/ \E data \in PromptDataSet : CreatePrompt(data)
    \/ \E p \in PromptIds, c \in Contents : CreateVersion(p, c, Undefined)
    \/ \E id \in VersionIds : RollbackToVersion(id)

SpecV == InitV /\ [][NextV]_vars

\* the versioning service and the import
NextI ==
    \/ \E data \in PromptDataSet : CreatePrompt(data)
    \/ \E p \in PromptIds, c \in Contents : CreateVersion(p, c, Undefined)
    \/ \E id \in VersionIds : RollbackToVersion(id)
    \/ \E merge \in BOOLEAN : ImportStart(file, merge)
    \/ ImportStep
    \/ ImportReturn

SpecI == Init /\ [][NextI]_vars

\* every function the database module exports that writes
Next ==
    \/ \E data \in PromptDataSet : CreatePrompt(data)
    \/ \E id \in PromptIds, u \in PromptUpdates : UpdatePrompt(id, u)
    \/ \E id \in PromptIds, hard \in BOOLEAN : DeletePrompt(id, hard)
    \/ \E p \in PromptIds, c \in Contents : CreateVersion(p, c, Undefined)
    \/ \E id \in VersionIds, u \in VersionUpdates : UpdateVersion(id, u)
    \/ \E id \in VersionIds : DeleteVersion(id)
    \/ \E id \in VersionIds : RollbackToVersion(id)
    \/ ClearAllData
    \/ \E merge \in BOOLEAN : ImportStart(file, merge)
    \/ ImportStep
    \/ ImportReturn

Spec == Init /\ [][Next]_vars

(***************************************************************************)
(* The diff view (part_004): computeDiff, a greedy line diff with a        *)
(* lookahead of one line                                                   *)
(***************************************************************************)
\* the lines of the texts compared
Lines == {"a", "b"}

\* the sequences of at most n lines
LinesUpTo(n) == UNION {[1..m -> Lines] : m \in 0..n}

\* lines[k] of JavaScript, k counted from 1: undefined past the end
At(lines, k) == IF k \in 1..Len(lines) THEN lines[k] ELSE Undefined

DiffLine(type, content) == [type |-> type, content |-> content]

\* the loop with the lookahead tried before the lines are compared
RECURSIVE ComputeDiffLookaheadFirst(_, _, _, _, _)
ComputeDiffLookaheadFirst(old, new, i, j, result) ==
    IF ~(i <= Len(old) \/ j <= Len(new)) THEN result
    ELSE IF i > Len(old) THEN ComputeDiffLookaheadFirst(old, new, i, j + 1, Append(result, DiffLine("added", new[j])))
    ELSE IF j > Len(new) THEN ComputeDiffLookaheadFirst(old, new, i + 1, j, Append(result, DiffLine("removed", old[i])))
    ELSE LET oldMatchesNext == At(old, i + 1) = new[j]
             newMatchesNext == At(new, j + 1) = old[i] IN
         IF oldMatchesNext
         THEN ComputeDiffLookaheadFirst(old, new, i + 1, j, Append(result, DiffLine("removed", old[i])))
         ELSE IF newMatchesNext
         THEN ComputeDiffLookaheadFirst(old, new, i, j + 1, Append(result, DiffLine("added", new[j])))
         ELSE IF old[i] = new[j]
         THEN ComputeDiffLookaheadFirst(old, new, i + 1, j + 1, Append(result, DiffLine("unchanged", old[i])))
         ELSE ComputeDiffLookaheadFirst(old, new, i + 1, j + 1, Append(Append(result, DiffLine("removed", old[i])), DiffLine("added", new[j])))

\* the while loop of computeDiff from the positions i and j, counted from 1
RECURSIVE ComputeDiffFrom(_, _, _, _, _)
ComputeDiffFrom(old, new, i, j, result) ==
    IF ~(i <= Len(old) \/ j <= Len(new)) THEN result
    ELSE IF i > Len(old) THEN ComputeDiffFrom(old, new, i, j + 1, Append(result, DiffLine("added", new[j])))
    ELSE IF j > Len(new) THEN ComputeDiffFrom(old, new, i + 1, j, Append(result, DiffLine("removed", old[i])))
    ELSE IF old[i] = new[j] THEN ComputeDiffFrom(old, new, i + 1, j + 1, Append(result, DiffLine("unchanged", old[i])))
    ELSE LET oldMatchesNext == At(old, i + 1) = new[j]
             newMatchesNext == At(new, j + 1) = old[i] IN
         IF oldMatchesNext /\ ~newMatchesNext
         THEN ComputeDiffFrom(old, new, i + 1, j, Append(result, DiffLine("removed", old[i])))
         ELSE IF newMatchesNext /\ ~oldMatchesNext
         THEN ComputeDiffFrom(old, new, i, j + 1, Append(result, DiffLine("added", new[j])))
         ELSE ComputeDiffFrom(old, new, i + 1, j + 1, Append(Append(result, DiffLine("removed", old[i])), DiffLine("added", new[j])))

ComputeDiff(old, new) == ComputeDiffFrom(old, new, 1, 1, <<>>)

\* the view is opened on two texts of at most MaxLines lines
InitD ==
    /\ InitStore
    /\ InitCrypto
    /\ InitDrive
    /\ InitApp
    /\ InitAux
    /\ file = EmptyDoc
    /\ budget = 0
    /\ oldLines \in LinesUpTo(MaxLines)
    /\ newLines \in LinesUpTo(MaxLines)
    /\ diff = NoDiff
    /\ loop = NoLoop

\* renderDiff calls computeDiff on the lines of the two texts
RenderDiff ==
    /\ ~diff.done
    /\ diff' = [done |-> TRUE, lines |-> ComputeDiff(oldLines, newLines)]
    /\ UNCHANGED <<prompts, versions, clock, pc, imp, last, budget, file, appVars, auxVars, oldLines, newLines, loop, cryptoVars, driveVars>>

NextD == RenderDiff

SpecD == InitD /\ [][NextD]_vars

(***************************************************************************)
(* computeDiff one iteration at a time                                     *)
(***************************************************************************)
\* what an iteration leaves: the new i and j and the lines it pushed
Iteration(i, j, lines) == [i |-> i, j |-> j, lines |-> lines]

\* an iteration that takes the lookahead of the old side whenever it matches
DiffStepOldFirst(old, new, i, j) ==
    IF i > Len(old) THEN Iteration(i, j + 1, <<DiffLine("added", new[j])>>)
    ELSE IF j > Len(new) THEN Iteration(i + 1, j, <<DiffLine("removed", old[i])>>)
    ELSE IF old[i] = new[j] THEN Iteration(i + 1, j + 1, <<DiffLine("unchanged", old[i])>>)
    ELSE LET oldMatchesNext == At(old, i + 1) = new[j]
             newMatchesNext == At(new, j + 1) = old[i] IN
         IF oldMatchesNext THEN Iteration(i + 1, j, <<DiffLine("removed", old[i])>>)
         ELSE IF newMatchesNext THEN Iteration(i, j + 1, <<DiffLine("added", new[j])>>)
         ELSE Iteration(i + 1, j + 1, <<DiffLine("removed", old[i]), DiffLine("added", new[j])>>)

\* an iteration that pushes one entry for two lines that differ
DiffStepOnePush(old, new, i, j) ==
    IF i > Len(old) THEN Iteration(i, j + 1, <<DiffLine("added", new[j])>>)
    ELSE IF j > Len(new) THEN Iteration(i + 1, j, <<DiffLine("removed", old[i])>>)
    ELSE IF old[i] = new[j] THEN Iteration(i + 1, j + 1, <<DiffLine("unchanged", old[i])>>)
    ELSE LET oldMatchesNext == At(old, i + 1) = new[j]
             newMatchesNext == At(new, j + 1) = old[i] IN
         IF oldMatchesNext /\ ~newMatchesNext THEN Iteration(i + 1, j, <<DiffLine("removed", old[i])>>)
         ELSE IF newMatchesNext /\ ~oldMatchesNext THEN Iteration(i, j + 1, <<DiffLine("added", new[j])>>)
         ELSE Iteration(i + 1, j + 1, <<DiffLine("added", new[j])>>)

\* the body of the while loop of computeDiff at the positions i and j
DiffStep(old, new, i, j) ==
    IF i > Len(old) THEN Iteration(i, j + 1, <<DiffLine("added", new[j])>>)
    ELSE IF j > Len(new) THEN Iteration(i + 1, j, <<DiffLine("removed", old[i])>>)
    ELSE IF old[i] = new[j] THEN Iteration(i + 1, j + 1, <<DiffLine("unchanged", old[i])>>)
    ELSE LET oldMatchesNext == At(old, i + 1) = new[j]
             newMatchesNext == At(new, j + 1) = old[i] IN
         IF oldMatchesNext /\ ~newMatchesNext THEN Iteration(i + 1, j, <<DiffLine("removed", old[i])>>)
         ELSE IF newMatchesNext /\ ~oldMatchesNext THEN Iteration(i, j + 1, <<DiffLine("added", new[j])>>)
         ELSE Iteration(i + 1, j + 1, <<DiffLine("removed", old[i]), DiffLine("added", new[j])>>)

\* renderDiff calls computeDiff: result = [], i = 0, j = 0
ComputeDiffStart ==
    /\ ~diff.done
    /\ ~loop.on
    /\ loop' = [NoLoop EXCEPT !.on = TRUE]
    /\ UNCHANGED <<prompts, versions, clock, pc, imp, last, budget, file, appVars, auxVars, oldLines, newLines, diff, cryptoVars, driveVars>>

\* while (i < oldLines.length || j < newLines.length)
ComputeDiffIterate ==
    /\ loop.on
    /\ loop.i <= Len(oldLines) \/ loop.j <= Len(newLines)
    /\ LET it == DiffStep(oldLines, newLines, loop.i, loop.j) IN
       loop' = [on |-> TRUE, i |-> it.i, j |-> it.j, result |-> loop.result \o it.lines, n |-> loop.n + 1]
    /\ UNCHANGED <<prompts, versions, clock, pc, imp, last, budget, file, appVars, auxVars, oldLines, newLines, diff, cryptoVars, driveVars>>

\* return result
ComputeDiffReturn ==
    /\ loop.on
    /\ ~(loop.i <= Len(oldLines) \/ loop.j <= Len(newLines))
    /\ diff' = [done |-> TRUE, lines |-> loop.result]
    /\ loop' = [loop EXCEPT !.on = FALSE]
    /\ UNCHANGED <<prompts, versions, clock, pc, imp, last, budget, file, appVars, auxVars, oldLines, newLines, cryptoVars, driveVars>>

NextL ==
    \/ ComputeDiffStart
    \/ ComputeDiffIterate
    \/ ComputeDiffReturn

SpecL == InitD /\ [][NextL]_vars

(***************************************************************************)
(* The crypto module (part_001) and the Drive adapter (adapters/drive.js). *)
(* A text is a string; a backup file is kept as the value whose text it    *)
(* holds, and BackupText computes that text character by character where   *)
(* the code looks into it.                                                 *)
(***************************************************************************)
\* window.crypto.getRandomValues for the salt and for the iv
Salts == {1, 2}

Ivs == {1}

\* the passphrases typed in: two of at least 8 characters and a short one
Passphrases == {"passphrase one", "passphrase two"}

PassphraseInputs == Passphrases \cup {"short"}

\* the promptData objects of the prompts that are backed up
BackupPromptData == {[title |-> "iv"], [title |-> "T", content |-> "A"]}

\* PBKDF2: the key is determined by the passphrase and the salt
DeriveKey(passphrase, s) == [passphrase |-> passphrase, salt |-> s]

\* JSON.stringify of a string: quotes and backslashes are escaped
RECURSIVE EscapeFrom(_, _)
EscapeFrom(str, k) ==
    IF k > Len(str) THEN ""
    ELSE LET c == SubSeq(str, k, k) IN
         (IF c = "\"" THEN "\\\"" ELSE IF c = "\\" THEN "\\\\" ELSE c) \o EscapeFrom(str, k + 1)

Quote(str) == "\"" \o EscapeFrom(str, 1) \o "\""

\* the indentation of JSON.stringify(data, null, 2) at a depth
RECURSIVE Pad(_)
Pad(depth) == IF depth = 0 THEN "" ELSE "  " \o Pad(depth - 1)

RECURSIVE Join(_, _)
Join(texts, sep) ==
    IF texts = <<>> THEN ""
    ELSE IF Len(texts) = 1 THEN texts[1]
    ELSE texts[1] \o sep \o Join(Tail(texts), sep)

\* an object that starts at a depth; members are pairs of a key and the text of a value
JsonObject(members, depth) ==
    "{\n" \o Join([k \in 1..Len(members) |-> Pad(depth + 1) \o Quote(members[k][1]) \o ": " \o members[k][2]], ",\n") \o "\n" \o Pad(depth) \o "}"

\* an array that starts at a depth; items are the texts of its elements
JsonArray(items, depth) ==
    IF items = <<>> THEN "[]"
    ELSE "[\n" \o Join([k \in 1..Len(items) |-> Pad(depth + 1) \o items[k]], ",\n") \o "\n" \o Pad(depth) \o "]"

JsonBoolean(b) == IF b THEN "true" ELSE "false"

\* an id is a UUID string; its digits stand for it
IdText(id) == Quote(ToString(id))

PromptText(p, depth) == JsonObject(<<
    <<"id", IdText(p.id)>>,
    <<"title", Quote(p.title)>>,
    <<"description", Quote(p.description)>>,
    <<"tags", JsonArray([k \in 1..Len(p.tags) |-> Quote(p.tags[k])], depth + 1)>>,
    <<"createdAt", ToString(p.createdAt)>>,
    <<"updatedAt", ToString(p.updatedAt)>>,
    <<"archived", JsonBoolean(p.archived)>> >>, depth)

VersionText(v, depth) == JsonObject(<<
    <<"id", IdText(v.id)>>,
    <<"promptId", IdText(v.promptId)>>,
    <<"version", Quote(v.version)>>,
    <<"content", Quote(v.content)>>,
    <<"notes", Quote(v.notes)>>,
    <<"createdAt", ToString(v.createdAt)>>,
    <<"updatedAt", ToString(v.updatedAt)>> >>, depth)

\* JSON.stringify(data, null, 2) of what exportData returns
ExportText(data) == JsonObject(<<
    <<"version", ToString(data.version)>>,
    <<"exportedAt", ToString(data.exportedAt)>>,
    <<"prompts", JsonArray([k \in 1..Len(data.prompts) |-> PromptText(data.prompts[k], 2)], 1)>>,
    <<"versions", JsonArray([k \in 1..Len(data.versions) |-> VersionText(data.versions[k], 2)], 1)>> >>, 0)

\* arrayBufferToBase64: letters and digits stand for the base64 text
Base64(name, n) == name \o ToString(n)

\* JSON.stringify({encrypted, iv, algorithm}) of encryptData
EnvelopeText(f) == "{" \o Quote("encrypted") \o ":" \o Quote(Base64("N", f.iv) \o Base64("C", f.key.salt)) \o "," \o Quote("iv") \o ":" \o Quote(Base64("N", f.iv)) \o "," \o Quote("algorithm") \o ":" \o Quote("AES-GCM") \o "}"

\* the plain backup of data, and the backup of data encrypted with a key and an iv
PlainFile(data) == [encrypted |-> FALSE, data |-> data]

EncryptedFile(data, key, iv) == [encrypted |-> TRUE, data |-> data, key |-> key, iv |-> iv]

\* the text of the backup file
BackupText(f) == IF f.encrypted THEN EnvelopeText(f) ELSE ExportText(f.data)

StartsWith(text, prefix) == Len(text) >= Len(prefix) /\ SubSeq(text, 1, Len(prefix)) = prefix

Includes(text, part) == \E k \in 1..(Len(text) - Len(part) + 1) : SubSeq(text, k, k + Len(part) - 1) = part

\* restore: backupData.startsWith('{') && backupData.includes('"iv"')
LooksEncrypted(text) == StartsWith(text, "{") /\ Includes(text, "\"iv\"")

\* Table.toArray: the records in the order of their keys
ToArray(t) == [k \in 1..Cardinality(DOMAIN t) |-> t[CHOOSE x \in DOMAIN t : Cardinality({y \in DOMAIN t : y < x}) = k - 1]]

\* an export that leaves out the archived prompts
ExportDataActive(ps, vs, now) == [version |-> 1, exportedAt |-> now, prompts |-> ToArray([p \in {q \in DOMAIN ps : ~ps[q].archived} |-> ps[p]]), versions |-> ToArray(vs)]

\* exportData(): the two tables as arrays
ExportData(ps, vs, now) == [version |-> 1, exportedAt |-> now, prompts |-> ToArray(ps), versions |-> ToArray(vs)]

IsAuthenticated == ready /\ accessToken # NoToken

\* nothing on this device, the clock at 0
InitB == InitStore /\ InitOthers /\ file = EmptyDoc /\ budget = MaxCallsB

\* the callback of the token client with an access token
SignIn ==
    /\ pc = "idle"
    /\ ~IsAuthenticated
    /\ accessToken' = "token"
    /\ ready' = TRUE
    /\ last' = Call("signIn", TRUE, 0, 0)
    /\ UNCHANGED <<prompts, versions, clock, pc, imp, budget, file, diffVars, auxVars, appVars, cryptoVars, backupFile>>

SignOut ==
    /\ pc = "idle"
    /\ Spend
    /\ accessToken' = NoToken
    /\ ready' = FALSE
    /\ last' = Call("signOut", TRUE, 0, 0)
    /\ UNCHANGED <<prompts, versions, clock, pc, imp, cryptoVars, backupFile>>

InitEncryption(passphrase) ==
    /\ pc = "idle"
    /\ Spend
    /\ IF Len(passphrase) < 8
       THEN /\ last' = [Call("initEncryption", FALSE, 0, 0) EXCEPT !.err = "Passphrase must be at least 8 characters"]
            /\ UNCHANGED cryptoVars
       ELSE /\ \E s \in Salts :
                 /\ encryptionSalt # NoSalt => s = encryptionSalt
                 /\ salt' = s
                 /\ encryptionSalt' = s
                 /\ encryptionKey' = DeriveKey(passphrase, s)
            /\ encryptionEnabled' = TRUE
            /\ last' = Call("initEncryption", TRUE, 0, 0)
    /\ UNCHANGED <<prompts, versions, clock, pc, imp, driveVars>>

\* deriveKey rejects a null salt; subtle.encrypt works with every key
ChangePassphrase(oldPassphrase, newPassphrase) ==
    /\ pc = "idle"
    /\ Spend
    /\ IF salt = NoSalt
       THEN /\ last' = [Call("changePassphrase", FALSE, 0, 0) EXCEPT !.err = "TypeError", !.data = [oldPassphrase |-> oldPassphrase, newPassphrase |-> newPassphrase]]
            /\ UNCHANGED <<encryptionKey, salt, encryptionSalt>>
       ELSE /\ \E s \in Salts :
                 /\ salt' = s
                 /\ encryptionSalt' = s
                 /\ encryptionKey' = DeriveKey(newPassphrase, s)
            /\ last' = [Call("changePassphrase", TRUE, 0, 0) EXCEPT !.data = [oldPassphrase |-> oldPassphrase, newPassphrase |-> newPassphrase]]
    /\ UNCHANGED <<prompts, versions, clock, pc, imp, encryptionEnabled, driveVars>>

DisableEncryption ==
    /\ pc = "idle"
    /\ Spend
    /\ encryptionKey' = Null
    /\ salt' = NoSalt
    /\ encryptionSalt' = NoSalt
    /\ encryptionEnabled' = FALSE
    /\ last' = Call("disableEncryption", TRUE, 0, 0)
    /\ UNCHANGED <<prompts, versions, clock, pc, imp, driveVars>>

\* the call failed with a message and wrote nothing
BackupThrows(message) ==
    /\ last' = [Call("backup", FALSE, 0, 0) EXCEPT !.err = message]
    /\ UNCHANGED <<clock, backupFile>>

\* backup(encrypted); the requests to Drive succeed
Backup(encrypted) ==
    /\ pc = "idle"
    /\ Spend
    /\ IF ~IsAuthenticated THEN BackupThrows("Not authenticated. Please sign in first.")
       ELSE IF encrypted /\ ~encryptionEnabled THEN BackupThrows("Encryption not configured")
       ELSE IF encrypted /\ encryptionKey = Null THEN BackupThrows("Encryption not initialized. Call initEncryption() first.")
       ELSE \E now \in clock..MaxClock, iv \in Ivs :
              LET data == ExportData(prompts, versions, now) IN
              /\ backupFile' = IF encrypted THEN EncryptedFile(data, encryptionKey, iv) ELSE PlainFile(data)
              /\ clock' = now
              /\ last' = Call("backup", TRUE, 0, 0)
    /\ UNCHANGED <<prompts, versions, pc, imp, cryptoVars, accessToken, ready>>

\* the call failed with a message after it called decryptData or not
RestoreThrows(message, decrypt) ==
    /\ last' = [Call("restore", FALSE, 0, 0) EXCEPT !.err = message, !.decrypt = decrypt]
    /\ UNCHANGED <<pc, imp>>

\* restore() up to its call of importData(data, true), which ImportStep and
\* ImportReturn carry on; decryptData fails without a key, on a text without
\* the member encrypted (atob) and under another key (subtle.decrypt)
Restore ==
    /\ pc = "idle"
    /\ Spend
    /\ IF ~IsAuthenticated THEN RestoreThrows("Not authenticated. Please sign in first.", FALSE)
       ELSE IF backupFile = Null THEN RestoreThrows("No backup file found in Google Drive", FALSE)
       ELSE LET decrypt == LooksEncrypted(BackupText(backupFile)) IN
            IF decrypt /\ encryptionKey = Null THEN RestoreThrows("Encryption not initialized. Call initEncryption() first.", TRUE)
            ELSE IF decrypt /\ ~backupFile.encrypted THEN RestoreThrows("InvalidCharacterError", TRUE)
            ELSE IF decrypt /\ backupFile.key # encryptionKey THEN RestoreThrows("OperationError", TRUE)
            ELSE IF ~decrypt /\ backupFile.encrypted THEN RestoreThrows("Invalid import data format", FALSE)
            ELSE /\ pc' = "import"
                 /\ imp' = [data |-> backupFile.data, merge |-> TRUE, k |-> 1, imported |-> 0, skipped |-> 0, merged |-> 0, before |-> [prompts |-> prompts, versions |-> versions]]
                 /\ last' = [Call("restore", TRUE, 0, 0) EXCEPT !.decrypt = decrypt]
    /\ UNCHANGED <<prompts, versions, clock, cryptoVars, driveVars>>

\* one device: prompts are made, encryption is set up, backups are written
\* to Drive and restored from it
NextB ==
    \/ \E data \in BackupPromptData : CreatePrompt(data)
    \/ SignIn
    \/ SignOut
    \/ \E passphrase \in PassphraseInputs : InitEncryption(passphrase)
    \/ \E oldPassphrase, newPassphrase \in Passphrases : ChangePassphrase(oldPassphrase, newPassphrase)
    \/ DisableEncryption
    \/ \E encrypted \in BOOLEAN : Backup(encrypted)
    \/ Restore
    \/ ImportStep
    \/ ImportReturn

SpecB == InitB /\ [][NextB]_vars

(***************************************************************************)
(* The settings page over several page loads: the crypto module and the    *)
(* Drive adapter start anew, localStorage (the items encryptionSalt and    *)
(* settings) is kept                                                       *)
(***************************************************************************)
\* the page is loaded again: encryptionKey = null, salt = null, a new
\* DriveAdapter; loadSettings reads settings.encryption.enabled back
Reload ==
    /\ pc = "idle"
    /\ Spend
    /\ encryptionKey' = Null
    /\ salt' = NoSalt
    /\ accessToken' = NoToken
    /\ ready' = FALSE
    /\ last' = Call("reload", TRUE, 0, 0)
    /\ UNCHANGED <<prompts, versions, clock, pc, imp, encryptionSalt, encryptionEnabled, backupFile>>

\* the button Backup of the settings page: backup(settings.encryption.enabled)
DriveBackup == Backup(encryptionEnabled)

NextK ==
    \/ SignIn
    \/ \E passphrase \in PassphraseInputs : InitEncryption(passphrase)
    \/ \E oldPassphrase, newPassphrase \in Passphrases : ChangePassphrase(oldPassphrase, newPassphrase)
    \/ DisableEncryption
    \/ Reload
    \/ DriveBackup

SpecK == InitB /\ [][NextK]_vars

(***************************************************************************)
(* The event bus (state.js): on, once and emit for one event. forEach      *)
(* visits the indices below the length the array had when it started, one  *)
(* index per step, in the array as it is at that step.                     *)
(***************************************************************************)
CallbackIds == 1..MaxCallbacks

\* what a callback does when it is invoked: it returns, it throws, or it
\* emits the event again the first time it is invoked
Does == {"return", "throw", "emit"}

\* the function on() pushes: callback itself, or the wrapper of once()
Callback(id, once, does) == [id |-> id, once |-> once, does |-> does]

NoCallback == Callback(0, FALSE, "return")

\* the forEach of an emit: k is the index to visit, counted from 1, n the
\* length when it started, start the array when it started, seen the ids of
\* the callbacks it has invoked
ForEachFrame(array) == [kind |-> "forEach", k |-> 1, n |-> Len(array), start |-> array, seen |-> <<>>, cb |-> NoCallback]

\* a callback that is inside its call of emit
CallFrame(cb) == [kind |-> "call", k |-> 0, n |-> 0, start |-> <<>>, seen |-> <<>>, cb |-> cb]

\* callbacks.indexOf(callback), counted from 1; 0 for -1
IndexOf(array, id) == IF \E k \in 1..Len(array) : array[k].id = id THEN CHOOSE k \in 1..Len(array) : array[k].id = id /\ \A m \in 1..(k - 1) : array[m].id # id ELSE 0

\* the unsubscribe function: splice(index, 1) if index > -1
Unsubscribe(array, id) == LET index == IndexOf(array, id) IN IF index > 0 THEN SubSeq(array, 1, index - 1) \o SubSeq(array, index + 1, Len(array)) ELSE array

\* the ids that were given to callbacks
UsedCallbackIds == {events[k].id : k \in 1..Len(events)} \cup {invoked[k].id : k \in 1..Len(invoked)}

BusFrame == UNCHANGED <<prompts, versions, clock, pc, imp, file, diffVars, cryptoVars, driveVars, appVars, second, remote>>

Top == stack[Len(stack)]

Pop == SubSeq(stack, 1, Len(stack) - 1)

\* on(event, callback) and once(event, callback), called while no emit runs
Subscribe(once, does) ==
    /\ stack = <<>>
    /\ budget > 0 /\ budget' = budget - 1
    /\ \E id \in CallbackIds \ UsedCallbackIds : events' = Append(events, Callback(id, once, does))
    /\ last' = Call(IF once THEN "once" ELSE "on", TRUE, 0, 0)
    /\ UNCHANGED <<stack, invoked>>
    /\ BusFrame

\* emit(event, data) called from outside a callback
Emit ==
    /\ stack = <<>>
    /\ budget > 0 /\ budget' = budget - 1
    /\ stack' = <<ForEachFrame(events)>>
    /\ UNCHANGED <<events, invoked, last>>
    /\ BusFrame

\* forEach at an index that is in the array: the callback is invoked; a
\* wrapper of once calls unsubscribe after its callback has returned
ForEachCall ==
    /\ stack # <<>> /\ Top.kind = "forEach" /\ Top.k <= Top.n /\ Top.k <= Len(events)
    /\ LET cb == events[Top.k]
           frame == [Top EXCEPT !.seen = Append(@, cb.id)] IN
       /\ invoked' = Append(invoked, cb)
       /\ IF cb.does = "emit" /\ \A m \in 1..Len(invoked) : invoked[m].id # cb.id
          THEN /\ stack' = Pop \o <<frame, CallFrame(cb), ForEachFrame(events)>>
               /\ events' = events
          ELSE /\ stack' = Pop \o <<[frame EXCEPT !.k = @ + 1]>>
               /\ events' = IF cb.once /\ cb.does # "throw" THEN Unsubscribe(events, cb.id) ELSE events
    /\ UNCHANGED <<budget, last>>
    /\ BusFrame

\* forEach at an index that is no longer in the array: nothing is invoked
ForEachSkip ==
    /\ stack # <<>> /\ Top.kind = "forEach" /\ Top.k <= Top.n /\ Top.k > Len(events)
    /\ stack' = Pop \o <<[Top EXCEPT !.k = @ + 1]>>
    /\ UNCHANGED <<events, invoked, budget, last>>
    /\ BusFrame

\* forEach is through: emit returns
ForEachEnd ==
    /\ stack # <<>> /\ Top.kind = "forEach" /\ Top.k > Top.n
    /\ stack' = Pop
    /\ last' = IF Len(stack) = 1 THEN [Call("emit", TRUE, 0, 0) EXCEPT !.data = [start |-> Top.start, seen |-> Top.seen]] ELSE last
    /\ UNCHANGED <<events, invoked, budget>>
    /\ BusFrame

\* the emit a callback made has returned: the callback returns, its wrapper
\* of once calls unsubscribe, and the forEach that invoked it goes on
CallbackReturn ==
    /\ stack # <<>> /\ Top.kind = "call"
    /\ events' = IF Top.cb.once THEN Unsubscribe(events, Top.cb.id) ELSE events
    /\ stack' = SubSeq(stack, 1, Len(stack) - 2) \o <<[stack[Len(stack) - 1] EXCEPT !.k = @ + 1]>>
    /\ UNCHANGED <<invoked, budget, last>>
    /\ BusFrame

InitU == InitStore /\ InitOthers /\ file = EmptyDoc /\ budget = MaxCallsU

NextU ==
    \/ \E once \in BOOLEAN, does \in Does : Subscribe(once, does)
    \/ Emit
    \/ ForEachCall
    \/ ForEachSkip
    \/ ForEachEnd
    \/ CallbackReturn

SpecU == InitU /\ [][NextU]_vars

(***************************************************************************)
(* The editor (state.js): handleSave and handleNewVersion call             *)
(* createVersion without waiting for an earlier activation, so two calls   *)
(* run interleaved at their awaits; each database request is a transaction *)
(* of its own                                                              *)
(***************************************************************************)
\* the version ids that calls in flight have drawn
DrawnIds == {calls[a].id : a \in {x \in Activations : calls[x].pc # "idle"}}

\* createVersion(currentPrompt.id, content, notes) up to its first await: id
\* and now are taken and the query for the versions of the prompt is issued;
\* currentPrompt is a stored prompt
CreateVersionBegin(a, promptId, content, notes) ==
    /\ pc = "idle"
    /\ promptId \in DOMAIN prompts
    /\ calls[a].pc = "idle"
    /\ budget > 0 /\ budget' = budget - 1
    /\ \E id \in VersionIds \ (DOMAIN versions \cup DrawnIds), now \in clock..MaxClock :
        /\ calls' = [calls EXCEPT ![a] = [pc |-> "count", promptId |-> promptId, content |-> content, notes |-> notes, id |-> id, now |-> now, version |-> Null]]
        /\ clock' = now
    /\ UNCHANGED <<prompts, versions, pc, imp, last, file, inflight, diffVars, auxVars, cryptoVars, driveVars>>

\* the query resolves: the version is built with the label of the count and
\* db.versions.add is issued
CreateVersionCount(a) ==
    /\ calls[a].pc = "count"
    /\ calls' = [calls EXCEPT ![a].pc = "add", ![a].version = NewVersion(versions, calls[a].id, calls[a].promptId, calls[a].content, calls[a].notes, calls[a].now)]
    /\ UNCHANGED <<prompts, versions, clock, pc, imp, last, budget, file, inflight, diffVars, auxVars, cryptoVars, driveVars>>

\* db.versions.add resolves and updatePrompt(promptId, {}) is called
CreateVersionAdd(a) ==
    /\ calls[a].pc = "add"
    /\ versions' = TableAdd(versions, calls[a].id, calls[a].version)
    /\ calls' = [calls EXCEPT ![a].pc = "touch"]
    /\ UNCHANGED <<prompts, clock, pc, imp, last, budget, file, inflight, diffVars, auxVars, cryptoVars, driveVars>>

\* updatePrompt resolves and createVersion returns the id
CreateVersionTouch(a) ==
    /\ calls[a].pc = "touch"
    /\ \E t \in clock..MaxClock :
        /\ prompts' = UpdatePromptIn(prompts, calls[a].promptId, EmptyObject, t)
        /\ clock' = t
    /\ last' = Call("createVersion", TRUE, calls[a].promptId, calls[a].id)
    /\ calls' = [calls EXCEPT ![a] = NoCall]
    /\ UNCHANGED <<versions, pc, imp, budget, file, inflight, diffVars, auxVars, cryptoVars, driveVars>>

\* prompts are created, and Save or New version is activated for stored prompts
NextE ==
    \/ \E data \in PromptDataSet : CreatePrompt(data)
    \/ \E a \in Activations, p \in PromptIds, c \in Contents : CreateVersionBegin(a, p, c, "n")
    \/ \E a \in Activations : CreateVersionCount(a)
    \/ \E a \in Activations : CreateVersionAdd(a)
    \/ \E a \in Activations : CreateVersionTouch(a)

SpecE == InitV /\ [][NextE]_vars

(***************************************************************************)
(* The database module one awaited write at a time: calls are made one     *)
(* after the other, and the page can be closed between two writes of a     *)
(* call, which leaves what was written                                     *)
(***************************************************************************)
\* no call is running
Idle == pc = "idle" /\ inflight = NoOp /\ \A a \in Activations : calls[a].pc = "idle"

\* what the steps of createPrompt and deletePrompt leave alone
OpFrame == UNCHANGED <<pc, imp, file, calls, diffVars, auxVars, cryptoVars, driveVars>>

\* createPrompt up to `await db.prompts.add(prompt)`
CreatePromptBegin(data) ==
    /\ Idle
    /\ budget > 0 /\ budget' = budget - 1
    /\ \E id \in FreshPromptId(prompts, versions), now \in clock..MaxClock :
        /\ prompts' = TableAdd(prompts, id, NewPrompt(id, data, now))
        /\ clock' = now
        /\ inflight' = [op |-> "createPrompt", at |-> "add", id |-> id, data |-> data]
    /\ UNCHANGED <<versions, last>>
    /\ OpFrame

\* the add has resolved: createVersion is called if there is content
CreatePromptVersion ==
    /\ inflight.op = "createPrompt" /\ inflight.at = "add"
    /\ OrDefault(Field(inflight.data, "content"), "") # ""
    /\ \E id \in VersionIds \ (DOMAIN versions \cup DrawnIds), now \in clock..MaxClock :
        /\ calls' = [calls EXCEPT ![1] = [pc |-> "count", promptId |-> inflight.id, content |-> inflight.data.content, notes |-> Field(inflight.data, "notes"), id |-> id, now |-> now, version |-> Null]]
        /\ clock' = now
    /\ inflight' = [inflight EXCEPT !.at = "version"]
    /\ UNCHANGED <<prompts, versions, pc, imp, last, budget, file, diffVars, auxVars, cryptoVars, driveVars>>

\* return id
CreatePromptReturn ==
    /\ inflight.op = "createPrompt"
    /\ \/ inflight.at = "add" /\ OrDefault(Field(inflight.data, "content"), "") = ""
       \/ inflight.at = "version" /\ calls[1].pc = "idle"
    /\ last' = [Call("createPrompt", TRUE, 0, inflight.id) EXCEPT !.data = inflight.data]
    /\ inflight' = NoOp
    /\ UNCHANGED <<prompts, versions, clock, budget>>
    /\ OpFrame

\* a hard delete that deletes the prompt before its versions
DeletePromptBeginPromptFirst(id, hard) ==
    /\ Idle
    /\ budget > 0 /\ budget' = budget - 1
    /\ IF hard
       THEN /\ prompts' = TableDelete(prompts, id)
            /\ inflight' = [op |-> "deletePrompt", at |-> "versions", id |-> id, data |-> EmptyObject]
            /\ UNCHANGED <<versions, clock, last>>
       ELSE /\ \E t \in clock..MaxClock :
                 /\ prompts' = UpdatePromptIn(prompts, id, [archived |-> TRUE], t)
                 /\ clock' = t
            /\ last' = Call("deletePrompt", TRUE, id, 0)
            /\ UNCHANGED <<versions, inflight>>
    /\ OpFrame

\* deletePrompt(id, hard) up to its first write: the versions of the prompt
\* are deleted, or the prompt is archived and the call returns
DeletePromptBegin(id, hard) ==
    /\ Idle
    /\ budget > 0 /\ budget' = budget - 1
    /\ IF hard
       THEN /\ versions' = [k \in (DOMAIN versions) \ WherePromptId(versions, id) |-> versions[k]]
            /\ inflight' = [op |-> "deletePrompt", at |-> "versions", id |-> id, data |-> EmptyObject]
            /\ UNCHANGED <<prompts, clock, last>>
       ELSE /\ \E t \in clock..MaxClock :
                 /\ prompts' = UpdatePromptIn(prompts, id, [archived |-> TRUE], t)
                 /\ clock' = t
            /\ last' = Call("deletePrompt", TRUE, id, 0)
            /\ UNCHANGED <<versions, inflight>>
    /\ OpFrame

\* what is left of the hard delete: await db.prompts.delete(id)
DeletePromptEnd ==
    /\ inflight.op = "deletePrompt"
    /\ prompts' = TableDelete(prompts, inflight.id)
    /\ versions' = versions
    /\ last' = [Call("deletePrompt", TRUE, inflight.id, 0) EXCEPT !.hard = TRUE]
    /\ inflight' = NoOp
    /\ UNCHANGED <<clock, budget>>
    /\ OpFrame

\* createVersion is called for a stored prompt while no call is running
CreateVersionAlone(promptId, content) == Idle /\ CreateVersionBegin(1, promptId, content, "")

\* rollbackToVersion up to the first await of its createVersion
RollbackToVersionBegin(versionId) ==
    /\ Idle
    /\ versionId \in DOMAIN versions
    /\ CreateVersionBegin(1, versions[versionId].promptId, versions[versionId].content, "Rollback to " \o versions[versionId].version)

\* importData is called while no call is running
ImportStartAlone(merge) == Idle /\ ImportStart(file, merge)

\* the writes an iteration of importData has made when the page is closed
\* after n of the versions it goes through: the new prompt and the versions
\* added so far, or the versions merged so far without the update of the prompt
ImportPromptUpTo(ps, vs, data, merge, prompt, n) ==
    LET all == Filter(data.versions, prompt.id)
        list == SubSeq(all, 1, IF n < Len(all) THEN n ELSE Len(all)) IN
    IF prompt.id \in DOMAIN ps
    THEN [prompts |-> ps, versions |-> IF merge THEN MergeVersions(vs, GetVersionsByPrompt(vs, prompt.id), list, 0).versions ELSE vs]
    ELSE [prompts |-> TableAdd(ps, prompt.id, prompt), versions |-> AddVersions(vs, list).versions]

\* the page is closed while a call is running: what it has written stays
Crash ==
    /\ ~Idle
    /\ IF AtPromptOfImport
       THEN \E n \in 0..Len(imp.data.versions) :
              LET r == ImportPromptUpTo(prompts, versions, imp.data, imp.merge, imp.data.prompts[imp.k], n) IN
              prompts' = r.prompts /\ versions' = r.versions
       ELSE UNCHANGED <<prompts, versions>>
    /\ pc' = "idle"
    /\ imp' = NoImport
    /\ calls' = [a \in Activations |-> NoCall]
    /\ inflight' = NoOp
    /\ last' = Call("crash", FALSE, 0, 0)
    /\ UNCHANGED <<clock, budget, file, diffVars, auxVars, cryptoVars, driveVars>>

\* the documents at hand: one prompt with two versions, two prompts that list
\* one version id, two prompts with a version each, and a version of a prompt
\* the document does not list
DocsO == {Doc(<<DocPrompt(1)>>, <<DocVersion(1, 1, 1), DocVersion(2, 1, 2)>>),
          Doc(<<DocPrompt(1), DocPrompt(2)>>, <<DocVersion(1, 1, 1), DocVersion(1, 2, 1)>>),
          Doc(<<DocPrompt(1), DocPrompt(2)>>, <<DocVersion(1, 1, 1), DocVersion(2, 2, 1)>>),
          Doc(<<DocPrompt(2)>>, <<DocVersion(1, 1, 1), DocVersion(3, 2, 1)>>)}

InitO == InitStore /\ InitOthers /\ file \in DocsO /\ budget = MaxCalls

NextO ==
    \/ \E data \in PromptDataSet : CreatePromptBegin(data)
    \/ CreatePromptVersion
    \/ CreatePromptReturn
    \/ \E p \in PromptIds, c \in Contents : CreateVersionAlone(p, c)
    \/ \E id \in VersionIds : RollbackToVersionBegin(id)
    \/ CreateVersionCount(1)
    \/ CreateVersionAdd(1)
    \/ CreateVersionTouch(1)
    \/ \E id \in PromptIds, hard \in BOOLEAN : DeletePromptBegin(id, hard)
    \/ DeletePromptEnd
    \/ \E merge \in BOOLEAN : ImportStartAlone(merge)
    \/ ImportStep
    \/ ImportReturn
    \/ Crash

SpecO == InitO /\ [][NextO]_vars

(***************************************************************************)
(* Export on one device and import on a second one whose store is empty    *)
(***************************************************************************)
\* the loop of importData from the k-th prompt of the document on, as a
\* function of the tables: the iterations are those of ImportStep
RECURSIVE ImportDataFrom(_, _, _, _, _, _, _)
ImportDataFrom(ps, vs, data, merge, k, counts, t) ==
    IF k > Len(data.prompts) THEN [ok |-> TRUE, prompts |-> ps, versions |-> vs, counts |-> counts]
    ELSE LET r == ImportPrompt(ps, vs, data, merge, data.prompts[k], t) IN
         IF r.ok
         THEN ImportDataFrom(r.prompts, r.versions, data, merge, k + 1, [imported |-> counts.imported + r.imported, skipped |-> counts.skipped + r.skipped, merged |-> counts.merged + r.merged], t)
         ELSE [ok |-> FALSE, prompts |-> r.prompts, versions |-> r.versions, counts |-> ZeroCounts]

\* importData(data, merge) on the tables ps, vs
ImportData(ps, vs, data, merge, t) ==
    IF "prompts" \notin DOMAIN data \/ "versions" \notin DOMAIN data
    THEN [ok |-> FALSE, prompts |-> ps, versions |-> vs, counts |-> ZeroCounts]
    ELSE ImportDataFrom(ps, vs, data, merge, 1, ZeroCounts, t)

\* exportData() on this device, importData(document, merge) on the second;
\* no call follows
RoundTrip(merge) ==
    /\ pc = "idle"
    /\ ~second.done
    /\ budget' = 0
    /\ \E now \in clock..MaxClock :
        LET data == ExportData(prompts, versions, now)
            r == ImportData(EmptyTable, EmptyTable, data, merge, now) IN
        /\ second' = [done |-> TRUE, data |-> data, merge |-> merge, ok |-> r.ok, prompts |-> r.prompts, versions |-> r.versions, counts |-> r.counts]
        /\ clock' = now
    /\ last' = Call("exportData", TRUE, 0, 0)
    /\ UNCHANGED <<prompts, versions, pc, imp, file, diffVars, cryptoVars, driveVars, appVars, busVars, remote>>

\* the document at hand for importData on this device: one prompt with two versions
DocsR == {Doc(<<DocPrompt(1)>>, <<DocVersion(1, 1, 1), DocVersion(2, 1, 2)>>)}

InitR == InitStore /\ InitOthers /\ file \in DocsR /\ budget = MaxCalls

\* every function of the database module that writes, and the export
NextR ==
    \/ \E data \in PromptDataSet : CreatePrompt(data)
    \/ \E id \in PromptIds, u \in PromptUpdates : UpdatePrompt(id, u)
    \/ \E id \in PromptIds, hard \in BOOLEAN : DeletePrompt(id, hard)
    \/ \E p \in PromptIds, c \in Contents : CreateVersion(p, c, Undefined)
    \/ \E id \in VersionIds, u \in VersionUpdates : UpdateVersion(id, u)
    \/ \E id \in VersionIds : DeleteVersion(id)
    \/ \E id \in VersionIds : RollbackToVersion(id)
    \/ ClearAllData
    \/ \E merge \in BOOLEAN : ImportStart(file, merge)
    \/ ImportStep
    \/ ImportReturn
    \/ \E merge \in BOOLEAN : RoundTrip(merge)

SpecR == InitR /\ [][NextR]_vars

(***************************************************************************)
(* firebase.js: importData of the Firebase adapter, beside that of db.js   *)
(***************************************************************************)
\* the loop `for (const version of data.versions.filter(...))`: setDoc writes
\* the document of the version's id, whether or not there is one
RECURSIVE FirebaseSetVersions(_, _)
FirebaseSetVersions(vs, list) ==
    IF list = <<>> THEN vs ELSE FirebaseSetVersions(TableAdd(vs, Head(list).id, Head(list)), Tail(list))

\* one iteration of `for (const prompt of data.prompts)` of the adapter
FirebaseImportPrompt(ps, vs, data, merge, prompt, t) ==
    LET existing == prompt.id \in DOMAIN ps
        list == Filter(data.versions, prompt.id) IN
    IF existing /\ ~merge
    THEN [prompts |-> ps, versions |-> vs, imported |-> 0, skipped |-> 1, merged |-> 0]
    ELSE IF existing /\ merge
    THEN [prompts |-> TableAdd(ps, prompt.id, Spread(prompt, [updatedAt |-> t])), versions |-> FirebaseSetVersions(vs, list), imported |-> 0, skipped |-> 0, merged |-> Len(list)]
    ELSE [prompts |-> TableAdd(ps, prompt.id, prompt), versions |-> FirebaseSetVersions(vs, list), imported |-> 1, skipped |-> 0, merged |-> 0]

\* the loop of the adapter from the k-th prompt of the document on
RECURSIVE FirebaseImportDataFrom(_, _, _, _, _, _, _)
FirebaseImportDataFrom(ps, vs, data, merge, k, counts, t) ==
    IF k > Len(data.prompts) THEN [ok |-> TRUE, prompts |-> ps, versions |-> vs, counts |-> counts]
    ELSE LET r == FirebaseImportPrompt(ps, vs, data, merge, data.prompts[k], t) IN
         FirebaseImportDataFrom(r.prompts, r.versions, data, merge, k + 1, [imported |-> counts.imported + r.imported, skipped |-> counts.skipped + r.skipped, merged |-> counts.merged + r.merged], t)

\* FirebaseAdapter.importData(data, merge) on the collections ps, vs
FirebaseImportData(ps, vs, data, merge, t) ==
    IF "prompts" \notin DOMAIN data \/ "versions" \notin DOMAIN data
    THEN [ok |-> FALSE, prompts |-> ps, versions |-> vs, counts |-> ZeroCounts]
    ELSE FirebaseImportDataFrom(ps, vs, data, merge, 1, ZeroCounts, t)

\* importData(file, merge) of db.js on the store and of the adapter on
\* collections that hold what the store holds; no call follows
ImportDataOnBoth(merge) ==
    /\ pc = "idle"
    /\ ~remote.done
    /\ budget' = 0
    /\ \E now \in clock..MaxClock :
        LET r == ImportData(prompts, versions, file, merge, now)
            f == FirebaseImportData(prompts, versions, file, merge, now) IN
        /\ prompts' = r.prompts
        /\ versions' = r.versions
        /\ last' = [Call("importData", r.ok, 0, 0) EXCEPT !.data = file, !.merge = merge, !.counts = r.counts,
                       !.err = IF r.ok THEN "" ELSE IF "prompts" \in DOMAIN file /\ "versions" \in DOMAIN file THEN "ConstraintError" ELSE "Invalid import data format"]
        /\ remote' = [done |-> TRUE, data |-> file, merge |-> merge, ok |-> f.ok, prompts |-> f.prompts, versions |-> f.versions, counts |-> f.counts]
        /\ clock' = now
    /\ UNCHANGED <<pc, imp, file, diffVars, cryptoVars, driveVars, appVars, second, busVars>>

\* the documents handed to both: one prompt with two versions, a version of a
\* prompt the document does not list, and one that lacks a top-level array
DocsF == {Doc(<<DocPrompt(1)>>, <<DocVersion(1, 1, 1), DocVersion(2, 1, 2)>>),
          Doc(<<DocPrompt(2)>>, <<DocVersion(1, 1, 1), DocVersion(3, 2, 1)>>),
          [prompts |-> <<>>]}

InitF == InitStore /\ InitOthers /\ file \in DocsF /\ budget = MaxCalls

\* every function of the database module that writes, then the two imports
NextF ==
    \/ \E data \in PromptDataSet : CreatePrompt(data)
    \/ \E id \in PromptIds, u \in PromptUpdates : UpdatePrompt(id, u)
    \/ \E id \in PromptIds, hard \in BOOLEAN : DeletePrompt(id, hard)
    \/ \E p \in PromptIds, c \in Contents : CreateVersion(p, c, Undefined)
    \/ \E id \in VersionIds, u \in VersionUpdates : UpdateVersion(id, u)
    \/ \E id \in VersionIds : DeleteVersion(id)
    \/ \E id \in VersionIds : RollbackToVersion(id)
    \/ ClearAllData
    \/ \E merge \in BOOLEAN : ImportDataOnBoth(merge)

SpecF == InitF /\ [][NextF]_vars

(***************************************************************************)
(* The versioning service (SpecV)                                          *)
(***************************************************************************)
\* the versions of promptId in the table vs
VersionsOf(vs, promptId) == {k \in DOMAIN vs : vs[k].promptId = promptId}

\* C1: every version createVersion inserts (called directly, by createPrompt or
\* by rollbackToVersion) is labelled v(N+1), N being the number of versions of
\* its prompt that were stored when the call started.
C1LabelIsCountPlusOne == [][\A id \in (DOMAIN versions') \ (DOMAIN versions) : versions'[id].version = "v" \o ToString(Cardinality(VersionsOf(versions, versions'[id].promptId)) + 1)]_vars

\* createVersion has made the second version of a prompt while another prompt has a version
C1Witness == last.op = "createVersion" /\ versions[last.ret].version = "v2" /\ \E k \in DOMAIN versions : versions[k].promptId # last.id

\* C2: rollbackToVersion(v) on a stored version leaves every stored version,
\* v included, as it was, and adds exactly one version: a new id, v's promptId,
\* v's content and the notes "Rollback to <v's label>".
C2RollbackAddsCopy == [][(last'.op = "rollbackToVersion" /\ last'.ok /\ budget' # budget) =>
    /\ last'.id \in DOMAIN versions
    /\ \A k \in DOMAIN versions : k \in DOMAIN versions' /\ versions'[k] = versions[k]
    /\ (DOMAIN versions') \ (DOMAIN versions) = {last'.ret}
    /\ last'.ret # versions[last'.id].id
    /\ versions'[last'.ret].promptId = versions[last'.id].promptId
    /\ versions'[last'.ret].content = versions[last'.id].content
    /\ versions'[last'.ret].notes = "Rollback to " \o versions[last'.id].version]_vars

\* a rollback to the second version of a prompt has been made
C2Witness == last.op = "rollbackToVersion" /\ last.ok /\ versions[last.ret].notes = "Rollback to v2" /\ versions[last.ret].content = "B"

\* C8: right after createVersion on a stored prompt, and right after a
\* rollbackToVersion, getLatestVersion of the prompt is the version just created.
C8LatestIsJustCreated ==
    /\ (last.op = "createVersion" /\ last.id \in DOMAIN prompts) => GetLatestVersion(versions, last.id) = versions[last.ret]
    /\ (last.op = "rollbackToVersion" /\ last.ok) => GetLatestVersion(versions, versions[last.ret].promptId) = versions[last.ret]

(***************************************************************************)
(* The import (SpecI)                                                      *)
(***************************************************************************)
\* importData is about to run the iteration for the prompt data.prompts[k]
AtPrompt == pc = "import" /\ imp.k <= Len(imp.data.prompts)

ThePrompt == imp.data.prompts[imp.k]

\* the versions of the document that belong to the prompt of the iteration
TheVersions == Filter(imp.data.versions, ThePrompt.id)

\* importData ends in this step, by return or by throw
ImportEnds == pc = "import" /\ pc' = "idle"

\* C4: in the merge of an incoming prompt that is stored, no stored version is
\* overwritten, every version inserted is one the document lists for that
\* prompt under an id that was not stored, and merged grows by the number of
\* versions inserted; the merged count importData returns is the number of
\* versions inserted for prompts that were stored when it was called.
C4MergeInsertsOnlyNew == [][
    /\ (AtPrompt /\ imp.merge /\ ThePrompt.id \in DOMAIN prompts) =>
        /\ \A k \in DOMAIN versions : k \in DOMAIN versions' /\ versions'[k] = versions[k]
        /\ \A k \in (DOMAIN versions') \ (DOMAIN versions) : \E i \in 1..Len(TheVersions) : TheVersions[i] = versions'[k] /\ TheVersions[i].id = k
        /\ pc' = "import" => imp'.merged = imp.merged + Cardinality((DOMAIN versions') \ (DOMAIN versions))
        /\ pc' = "import" => imp'.imported = imp.imported /\ imp'.skipped = imp.skipped
    /\ (ImportEnds /\ last'.ok) =>
        last'.counts.merged = Cardinality({k \in (DOMAIN versions') \ (DOMAIN imp.before.versions) : versions'[k].promptId \in DOMAIN imp.before.prompts})]_vars

\* a merge has inserted one version of the document and passed over another,
\* whose id was stored with other content
C4Witness == last.op = "importData" /\ last.ok /\ last.merge /\ last.counts.merged = 1 /\ \E i \in 1..Len(last.data.versions) : last.data.versions[i].id \in DOMAIN versions /\ versions[last.data.versions[i].id].content = "A"

\* the versions the document lists for the prompt have ids that are free and differ
FreeIds == /\ \A i \in 1..Len(TheVersions) : TheVersions[i].id \notin DOMAIN versions
           /\ \A i, j \in 1..Len(TheVersions) : i # j => TheVersions[i].id # TheVersions[j].id

\* C5 as stated: the iteration for an incoming prompt that is not stored inserts
\* the prompt record and every version the document lists for it, field for
\* field, and counts the prompt in imported only.
C5NewPromptInserted == [][(AtPrompt /\ ThePrompt.id \notin DOMAIN prompts) =>
    /\ ThePrompt.id \in DOMAIN prompts' /\ prompts'[ThePrompt.id] = ThePrompt
    /\ \A i \in 1..Len(TheVersions) : TheVersions[i].id \in DOMAIN versions' /\ versions'[TheVersions[i].id] = TheVersions[i]
    /\ pc' = "import" /\ imp'.imported = imp.imported + 1 /\ imp'.skipped = imp.skipped /\ imp'.merged = imp.merged]_vars

\* C5 amended: the prompt record is inserted field for field; the versions are
\* all inserted field for field and the prompt counted in imported only,
\* exactly when their ids are free and pairwise different; otherwise importData
\* throws without counts and no stored version is overwritten.
C5NewPromptInsertedIfFree == [][(AtPrompt /\ ThePrompt.id \notin DOMAIN prompts) =>
    /\ ThePrompt.id \in DOMAIN prompts' /\ prompts'[ThePrompt.id] = ThePrompt
    /\ FreeIds <=> pc' = "import"
    /\ FreeIds =>
        /\ \A i \in 1..Len(TheVersions) : TheVersions[i].id \in DOMAIN versions' /\ versions'[TheVersions[i].id] = TheVersions[i]
        /\ imp'.imported = imp.imported + 1 /\ imp'.skipped = imp.skipped /\ imp'.merged = imp.merged
    /\ ~FreeIds =>
        /\ last'.op = "importData" /\ ~last'.ok
        /\ \A k \in DOMAIN versions : k \in DOMAIN versions' /\ versions'[k] = versions[k]]_vars

\* an import without merge has inserted a new prompt and its two versions
C5Witness == last.op = "importData" /\ last.ok /\ ~last.merge /\ last.counts = [imported |-> 1, skipped |-> 0, merged |-> 0] /\ Len(last.data.versions) = 2 /\ \A i \in 1..2 : last.data.versions[i].id \in DOMAIN versions /\ versions[last.data.versions[i].id] = last.data.versions[i]

\* C6: without merge, the iteration for an incoming prompt that is stored only
\* increments skipped; until importData ends, the prompts stored when it was
\* called keep their record and their versions, and get no new version.
C6SkipLeavesPrompt == [][
    /\ (AtPrompt /\ ~imp.merge /\ ThePrompt.id \in DOMAIN prompts) =>
        /\ prompts' = prompts /\ versions' = versions /\ clock' = clock
        /\ pc' = "import" /\ imp' = [imp EXCEPT !.k = @ + 1, !.skipped = @ + 1]
    /\ (pc = "import" /\ ~imp.merge) =>
        \A p \in DOMAIN imp.before.prompts :
            /\ p \in DOMAIN prompts' /\ prompts'[p] = imp.before.prompts[p]
            /\ VersionsOf(versions', p) = VersionsOf(imp.before.versions, p)
            /\ \A k \in VersionsOf(versions', p) : versions'[k] = imp.before.versions[k]]_vars

\* an import without merge has skipped a stored prompt for which the document
\* lists a version that is not stored
C6Witness == last.op = "importData" /\ last.ok /\ ~last.merge /\ last.counts = [imported |-> 0, skipped |-> 1, merged |-> 0] /\ \E i \in 1..Len(last.data.versions) : last.data.versions[i].promptId = last.data.prompts[1].id /\ last.data.versions[i].id \notin DOMAIN versions

\* the call before this importData was importData with the same document and merge
SecondRun == ImportEnds /\ imp.merge /\ last.op = "importData" /\ last.merge /\ last.data = imp.data

LabelNumber(label) == CHOOSE n \in 0..(MaxVersions + 1) : VersionString(n) = label

\* C10: the versions of one prompt carry pairwise different labels, and of two
\* of them the one with the later createdAt has the larger number.
C10MonotonicLabels == \A k1, k2 \in DOMAIN versions : (k1 # k2 /\ versions[k1].promptId = versions[k2].promptId) =>
    /\ versions[k1].version # versions[k2].version
    /\ versions[k1].createdAt < versions[k2].createdAt => LabelNumber(versions[k1].version) < LabelNumber(versions[k2].version)

(***************************************************************************)
(* Every exported function (Spec)                                          *)
(***************************************************************************)
\* the step is a call of op from its start to its return or throw
Calls(op) == pc = "idle" /\ pc' = "idle" /\ budget' # budget /\ last'.op = op

\* C3: deletePrompt(id, true) removes the prompt id and every version of it,
\* and nothing else.
C3HardDeleteCascades == [][(Calls("deletePrompt") /\ last'.hard) =>
    /\ DOMAIN prompts' = (DOMAIN prompts) \ {last'.id}
    /\ \A q \in DOMAIN prompts' : prompts'[q] = prompts[q]
    /\ VersionsOf(versions', last'.id) = {}
    /\ DOMAIN versions' = (DOMAIN versions) \ VersionsOf(versions, last'.id)
    /\ \A k \in DOMAIN versions' : versions'[k] = versions[k]]_vars

\* two prompts with a version each were imported and the first one was deleted
C3Witness == last.op = "deletePrompt" /\ last.hard /\ last.id = 1 /\ budget = 0 /\ DOMAIN prompts = {2} /\ DOMAIN versions = {2} /\ versions[2] = DocVersion(2, 2, 1)

\* the version k stays stored as it is
Kept(k) == k \in DOMAIN versions' /\ versions'[k] = versions[k]

\* C9 as stated: a stored version stays stored as it is unless
\* deletePrompt(id, true) is called for its prompt.
C9AppendOnly == [][\A k \in DOMAIN versions : Kept(k) \/ (Calls("deletePrompt") /\ last'.hard /\ last'.id = versions[k].promptId)]_vars

\* C9 amended: ... or updateVersion or deleteVersion is called for it, or
\* clearAllData is called.
C9AppendOnlyButForVersionCalls == [][\A k \in DOMAIN versions :
    \/ Kept(k)
    \/ Calls("deletePrompt") /\ last'.hard /\ last'.id = versions[k].promptId
    \/ Calls("updateVersion") /\ last'.id = k
    \/ Calls("deleteVersion") /\ last'.id = k
    \/ Calls("clearAllData")]_vars

\* an import has met a stored version under an id the document lists, and the
\* stored one is still there
C9Witness == last.op = "importData" /\ last.ok /\ \E i \in 1..Len(last.data.versions) : last.data.versions[i].id \in DOMAIN versions /\ versions[last.data.versions[i].id].content = "A"

(***************************************************************************)
(* Prompts, errors and timestamps                                          *)
(***************************************************************************)
\* C11: deletePrompt(id, false) on a stored prompt sets its archived, changes
\* no other field of it but updatedAt, and leaves every other prompt and every
\* version as it was.
C11SoftDeleteFlipsArchived == [][(Calls("deletePrompt") /\ ~last'.hard /\ last'.id \in DOMAIN prompts) =>
    /\ versions' = versions
    /\ DOMAIN prompts' = DOMAIN prompts
    /\ \A q \in (DOMAIN prompts) \ {last'.id} : prompts'[q] = prompts[q]
    /\ prompts'[last'.id].archived = TRUE
    /\ DOMAIN prompts'[last'.id] = DOMAIN prompts[last'.id]
    /\ \A f \in (DOMAIN prompts[last'.id]) \ {"archived", "updatedAt"} : prompts'[last'.id][f] = prompts[last'.id][f]]_vars

\* a prompt made with a title, tags and a version was archived
C11Witness == last.op = "deletePrompt" /\ ~last.hard /\ last.id \in DOMAIN prompts /\ prompts[last.id].archived /\ prompts[last.id].title = "T" /\ prompts[last.id].tags = <<"x">> /\ VersionsOf(versions, last.id) # {}

\* C12: rollbackToVersion of an id that is not stored throws 'Version not
\* found' and leaves prompts and versions as they were.
C12RollbackNotFound == [][(Calls("rollbackToVersion") /\ last'.id \notin DOMAIN versions) =>
    (~last'.ok /\ last'.err = "Version not found" /\ prompts' = prompts /\ versions' = versions)]_vars

\* a rollback to an id that is not stored has failed on a store that holds a version
C12Witness == last.op = "rollbackToVersion" /\ ~last.ok /\ last.id \notin DOMAIN versions /\ versions # EmptyTable /\ prompts # EmptyTable

\* C13: updatePrompt and deletePrompt(id, false) of an id that is not stored
\* throw and leave the store as it was.
C13UpdateNotFound == [][((Calls("updatePrompt") \/ (Calls("deletePrompt") /\ ~last'.hard)) /\ last'.id \notin DOMAIN prompts) =>
    (~last'.ok /\ prompts' = prompts /\ versions' = versions)]_vars

\* the document lacks one of its two arrays
Malformed(data) == "prompts" \notin DOMAIN data \/ "versions" \notin DOMAIN data

\* C14: importData of a document that lacks prompts or versions throws
\* 'Invalid import data format' at once: it never reaches the loop, returns no
\* counts and leaves prompts and versions as they were.
C14InvalidFormat == [][
    /\ (pc = "idle" /\ pc' = "import") => ~Malformed(file)
    /\ (pc = "idle" /\ Calls("importData") /\ Malformed(file)) =>
        /\ pc' = "idle" /\ ~last'.ok /\ last'.err = "Invalid import data format" /\ last'.counts = ZeroCounts
        /\ prompts' = prompts /\ versions' = versions]_vars

\* the import of a document without one of its arrays has failed on a store that holds a prompt
C14Witness == last.op = "importData" /\ ~last.ok /\ Malformed(last.data) /\ prompts # EmptyTable

\* the incoming fields but updatedAt have the incoming value in the stored
\* record, whose updatedAt is the reading of the clock and whose other fields,
\* like every other prompt, are as they were
Overwritten == LET id == ThePrompt.id IN
    /\ DOMAIN prompts' = DOMAIN prompts
    /\ \A q \in (DOMAIN prompts) \ {id} : prompts'[q] = prompts[q]
    /\ \A f \in (DOMAIN ThePrompt) \ {"updatedAt"} : prompts'[id][f] = ThePrompt[f]
    /\ \A f \in (DOMAIN prompts[id]) \ ((DOMAIN ThePrompt) \cup {"updatedAt"}) : prompts'[id][f] = prompts[id][f]
    /\ prompts'[id].updatedAt = clock'

\* C15 as stated: the merge of an incoming prompt that is stored overwrites the
\* stored fields with the incoming ones, sets updatedAt to the reading of the
\* clock, and keeps every stored version as it is.
C15MergeOverwritesPrompt == [][(AtPrompt /\ imp.merge /\ ThePrompt.id \in DOMAIN prompts) =>
    /\ Overwritten
    /\ \A k \in DOMAIN versions : Kept(k)]_vars

\* C15 amended: the same when no insert is rejected; when one is, importData
\* throws with the stored prompts as they were, and every stored version is
\* kept as it is in both cases.
C15MergeOverwritesUnlessRejected == [][(AtPrompt /\ imp.merge /\ ThePrompt.id \in DOMAIN prompts) =>
    /\ pc' = "import" => Overwritten
    /\ pc' = "idle" => (prompts' = prompts /\ ~last'.ok /\ last'.err = "ConstraintError")
    /\ \A k \in DOMAIN versions : Kept(k)]_vars

\* a merge has overwritten the title of a prompt at a reading of the clock that
\* is not the incoming updatedAt, and has kept a stored version whose id the
\* document lists with other content
C15Witness == last.op = "importData" /\ last.ok /\ last.merge /\ \E i \in 1..Len(last.data.prompts), j \in 1..Len(last.data.versions) :
    LET prompt == last.data.prompts[i]  version == last.data.versions[j] IN
    /\ prompt.id \in DOMAIN prompts /\ prompts[prompt.id].title = prompt.title /\ prompts[prompt.id].tags = <<>> /\ prompts[prompt.id].updatedAt # prompt.updatedAt
    /\ version.id \in DOMAIN versions /\ versions[version.id].content = "A" /\ version.content # "A"

\* what createPrompt stores but for the timestamps: a new prompt under the id
\* it returns, not archived, with the title and the tags given or their
\* defaults, and one version v1 with the content and notes if content is given
Created == LET id == last'.ret  data == last'.data  new == (DOMAIN versions') \ (DOMAIN versions) IN
    /\ id \notin DOMAIN prompts /\ DOMAIN prompts' = (DOMAIN prompts) \cup {id}
    /\ \A q \in DOMAIN prompts : prompts'[q] = prompts[q]
    /\ \A k \in DOMAIN versions : Kept(k)
    /\ prompts'[id].id = id /\ prompts'[id].archived = FALSE
    /\ prompts'[id].title = (IF "title" \in DOMAIN data THEN data.title ELSE "Untitled Prompt")
    /\ prompts'[id].tags = (IF "tags" \in DOMAIN data THEN data.tags ELSE <<>>)
    /\ VersionsOf(versions', id) = new
    /\ IF "content" \in DOMAIN data
       THEN \E k \in new : new = {k} /\ versions'[k].version = "v1" /\ versions'[k].content = data.content /\ versions'[k].notes = data.notes
       ELSE new = {}

Touches(p) ==
    \/ (Calls("updatePrompt") \/ Calls("createVersion")) /\ last'.id = p
    \/ Calls("rollbackToVersion") /\ last'.ok /\ versions[last'.id].promptId = p

\* C17: updatePrompt, createVersion and rollbackToVersion leave the updatedAt
\* of the prompt no smaller than it was.
C17UpdatedAtAdvances == [][\A p \in DOMAIN prompts : Touches(p) => prompts'[p].updatedAt >= prompts[p].updatedAt]_vars

(***************************************************************************)
(* The diff view (SpecD)                                                   *)
(***************************************************************************)
\* C18: the diff of a text with itself is its lines in order, each unchanged.
C18DiffOfEqual == (diff.done /\ oldLines = newLines) => diff.lines = [k \in 1..Len(oldLines) |-> DiffLine("unchanged", oldLines[k])]

\* a text of three lines, the first repeated, was compared with itself
C18Witness == diff.done /\ oldLines = newLines /\ Len(oldLines) = 3 /\ oldLines[1] = oldLines[2] /\ oldLines[2] # oldLines[3]

(***************************************************************************)
(* The import that fails half way (SpecI)                                  *)
(***************************************************************************)
\* what the first m iterations of this importData can leave when none of them
\* throws: they start from the tables as they were when it was called
RECURSIVE Committed(_)
Committed(m) ==
    IF m = 0 THEN {[prompts |-> imp.before.prompts, versions |-> imp.before.versions]}
    ELSE LET runs == {ImportPrompt(c.prompts, c.versions, imp.data, imp.merge, imp.data.prompts[m], t) : c \in Committed(m - 1), t \in Times} IN
         {[prompts |-> r.prompts, versions |-> r.versions] : r \in {x \in runs : x.ok}}

\* the iteration for the prompt data.prompts[k] throws
ThrowsAtPrompt == AtPrompt /\ pc' = "idle"

\* the ids of the prompts the document lists after position k and not up to it
LaterIds == {imp.data.prompts[m].id : m \in (imp.k + 1)..Len(imp.data.prompts)} \ {imp.data.prompts[m].id : m \in 1..imp.k}

\* C22: when the iteration for the k-th prompt of the document throws, the
\* tables it found are those the iterations before it leave in an import that
\* succeeds, every record of them is still stored as it was (nothing is rolled
\* back), the prompts listed after position k and their versions are as they
\* were when importData was called, and the caller gets the error and no counts.
C22PartialImport == [][ThrowsAtPrompt =>
    /\ [prompts |-> prompts, versions |-> versions] \in Committed(imp.k - 1)
    /\ \A p \in DOMAIN prompts : p \in DOMAIN prompts' /\ prompts'[p] = prompts[p]
    /\ \A k \in DOMAIN versions : Kept(k)
    /\ \A p \in LaterIds :
        /\ p \in DOMAIN prompts' <=> p \in DOMAIN imp.before.prompts
        /\ p \in DOMAIN prompts' => prompts'[p] = imp.before.prompts[p]
        /\ VersionsOf(versions', p) = VersionsOf(imp.before.versions, p)
        /\ \A k \in VersionsOf(versions', p) : versions'[k] = imp.before.versions[k]
    /\ last'.op = "importData" /\ ~last'.ok /\ last'.err = "ConstraintError" /\ last'.counts = ZeroCounts]_vars

\* an import has failed at the second prompt of its document: the first prompt
\* is stored with its version, the second without the version whose id was taken
C22Witness == last.op = "importData" /\ ~last.ok /\ last.err = "ConstraintError" /\ Len(last.data.prompts) = 2
    /\ last.data.prompts[1].id # last.data.prompts[2].id
    /\ \A m \in 1..2 : last.data.prompts[m].id \in DOMAIN prompts /\ prompts[last.data.prompts[m].id] = last.data.prompts[m]
    /\ VersionsOf(versions, last.data.prompts[1].id) # {}
    /\ VersionsOf(versions, last.data.prompts[2].id) = {}

(***************************************************************************)
(* The loop of computeDiff (SpecL)                                         *)
(***************************************************************************)
\* the loop is at two lines that differ
Differ == loop.on /\ loop.i <= Len(oldLines) /\ loop.j <= Len(newLines) /\ oldLines[loop.i] # newLines[loop.j]

\* the two lookaheads of one line
OldMatchesNext == At(oldLines, loop.i + 1) = newLines[loop.j]

NewMatchesNext == At(newLines, loop.j + 1) = oldLines[loop.i]

\* the iteration pushes these entries and moves i and j by di and dj
Emits(lines, di, dj) == loop'.result = loop.result \o lines /\ loop'.i = loop.i + di /\ loop'.j = loop.j + dj

EmitsRemoved == Emits(<<DiffLine("removed", oldLines[loop.i])>>, 1, 0)

EmitsAdded == Emits(<<DiffLine("added", newLines[loop.j])>>, 0, 1)

EmitsBoth == Emits(<<DiffLine("removed", oldLines[loop.i]), DiffLine("added", newLines[loop.j])>>, 1, 1)

\* C21 as stated: at two lines that differ, old[i+1] = new[j] makes the
\* iteration emit old[i] as removed and advance i only; otherwise
\* new[j+1] = old[i] makes it emit new[j] as added and advance j only; it
\* emits the pair removed, added and advances both only when neither
\* lookahead matches.
C21Lookahead == [][Differ =>
    /\ OldMatchesNext => EmitsRemoved
    /\ (NewMatchesNext /\ ~OldMatchesNext) => EmitsAdded
    /\ EmitsBoth => (~OldMatchesNext /\ ~NewMatchesNext)]_vars

\* C21 amended: old[i] is emitted as removed with i advanced only when
\* old[i+1] = new[j] and new[j+1] # old[i]; new[j] as added with j advanced
\* only when new[j+1] = old[i] and old[i+1] # new[j]; the pair with both
\* advanced when neither lookahead matches and when both do.
C21LookaheadOneSided == [][Differ =>
    /\ (OldMatchesNext /\ ~NewMatchesNext) => EmitsRemoved
    /\ (NewMatchesNext /\ ~OldMatchesNext) => EmitsAdded
    /\ (OldMatchesNext <=> NewMatchesNext) => EmitsBoth]_vars

\* the diff of a, b against b has taken the lookahead of the old side: a is
\* removed and b unchanged
C21Witness == diff.done /\ oldLines = <<"a", "b">> /\ newLines = <<"b">> /\ diff.lines = <<DiffLine("removed", "a"), DiffLine("unchanged", "b")>> /\ loop.n = 2

\* the contents of the entries of a diff whose type is one of types, in order
RECURSIVE Project(_, _)
Project(lines, types) ==
    IF lines = <<>> THEN <<>>
    ELSE (IF Head(lines).type \in types THEN <<Head(lines).content>> ELSE <<>>) \o Project(Tail(lines), types)

\* C23: the unchanged and removed entries of what computeDiff has pushed are
\* the lines of old it has passed, in order, and the unchanged and added
\* entries those of new, so that the diff it returns holds all of old and all
\* of new; the loop makes at most |old| + |new| iterations.
C23PreservesInputs ==
    /\ Project(loop.result, {"unchanged", "removed"}) = SubSeq(oldLines, 1, loop.i - 1)
    /\ Project(loop.result, {"unchanged", "added"}) = SubSeq(newLines, 1, loop.j - 1)
    /\ diff.done => Project(diff.lines, {"unchanged", "removed"}) = oldLines
    /\ diff.done => Project(diff.lines, {"unchanged", "added"}) = newLines
    /\ loop.n <= Len(oldLines) + Len(newLines)

\* a diff of two texts of different lengths was returned with entries of the
\* three types, a pair removed, added among them
C23Witness == diff.done /\ Len(oldLines) # Len(newLines) /\ \A type \in {"unchanged", "removed", "added"} : (\E k \in 1..Len(diff.lines) : diff.lines[k].type = type)
    /\ loop.n < Len(diff.lines)

(***************************************************************************)
(* Two activations of the editor (SpecE)                                   *)
(***************************************************************************)
\* C24: the versions of one prompt carry pairwise different labels, also when
\* the calls of createVersion that inserted them ran interleaved.
C24DistinctLabels == \A k1, k2 \in DOMAIN versions : (k1 # k2 /\ versions[k1].promptId = versions[k2].promptId) => versions[k1].version # versions[k2].version

(***************************************************************************)
(* One awaited write at a time (SpecO)                                     *)
(***************************************************************************)
\* C25: every stored version has the promptId of a stored prompt, between any
\* two writes of createPrompt, createVersion, rollbackToVersion, deletePrompt
\* and importData, called one at a time, and after the page was closed
\* between two writes.
C25NoOrphans == \A k \in DOMAIN versions : versions[k].promptId \in DOMAIN prompts

\* the page was closed in a hard delete after the versions of the prompt were
\* deleted: the prompt is still stored, another prompt has its version
C25Witness == last.op = "crash" /\ \E p \in DOMAIN prompts : VersionsOf(versions, p) = {} /\ prompts[p].title = "T" /\ (\E q \in DOMAIN prompts : VersionsOf(versions, q) # {})

(***************************************************************************)
(* The round trip of export and import (SpecR)                             *)
(***************************************************************************)
\* the records of a table are those of a list
SameRecords(t, list) == {t[k] : k \in DOMAIN t} = {list[k] : k \in 1..Len(list)}

\* the import on the second device has stored what was exported and counted
\* every prompt as imported
RoundTripExact ==
    /\ second.ok
    /\ SameRecords(second.prompts, second.data.prompts) /\ second.prompts = prompts
    /\ SameRecords(second.versions, second.data.versions) /\ second.versions = versions
    /\ second.counts = [imported |-> Len(second.data.prompts), skipped |-> 0, merged |-> 0]

\* the store as it is was exported and imported on the second device
RoundTripMade == second.done /\ pc = "idle" /\ last.op = "exportData"

\* C26 as stated: importing what exportData returned into an empty store
\* yields the stored prompts and versions, archived prompts included, and
\* counts every prompt as imported, whatever calls have made the store.
C26RoundTrip == RoundTripMade => RoundTripExact

\* C26 amended: the same, provided every exported version has the promptId of
\* an exported prompt; the versions of other promptIds are exported and not
\* imported, the rest being as stated.
C26RoundTripOfOwnedVersions == RoundTripMade =>
    /\ C25NoOrphans => RoundTripExact
    /\ second.ok /\ second.prompts = prompts
    /\ second.versions = [k \in {x \in DOMAIN versions : versions[x].promptId \in DOMAIN prompts} |-> versions[k]]
    /\ second.counts = [imported |-> Len(second.data.prompts), skipped |-> 0, merged |-> 0]

\* a store with an archived prompt that has a version was exported and imported
C26Witness == RoundTripMade /\ C25NoOrphans /\ \E p \in DOMAIN second.prompts : second.prompts[p].archived /\ VersionsOf(second.versions, p) # {}

(***************************************************************************)
(* Backups and passphrases (SpecB)                                         *)
(***************************************************************************)
\* the step is restore() reading the backup file
RestoreReads == pc = "idle" /\ budget' # budget /\ last'.op = "restore" /\ IsAuthenticated /\ backupFile # Null

\* C19: restore calls decryptData exactly when the backup was written
\* encrypted, and hands a backup written in plain to importData as it is.
C19DecryptsIffEncrypted == [][RestoreReads =>
    /\ last'.decrypt <=> backupFile.encrypted
    /\ ~backupFile.encrypted => (pc' = "import" /\ imp'.data = backupFile.data)]_vars

\* C20: changePassphrase with an old passphrase that is not the one of the key
\* throws 'Invalid old passphrase' and leaves the key and both salts as they were.
C20OldPassphraseVerified == [][(Calls("changePassphrase") /\ encryptionKey # Null /\ last'.data.oldPassphrase # encryptionKey.passphrase) =>
    (~last'.ok /\ last'.err = "Invalid old passphrase" /\ UNCHANGED <<encryptionKey, salt, encryptionSalt>>)]_vars

(***************************************************************************)
(* The settings and the key over page loads (SpecK)                        *)
(***************************************************************************)
\* C27: settings.encryption.enabled is true exactly when the crypto module
\* holds a key, and a backup(settings.encryption.enabled) never fails with
\* 'Encryption not initialized'.
C27SettingsAgreeWithKey ==
    /\ encryptionEnabled <=> encryptionKey # Null
    /\ last.op = "backup" => last.err # "Encryption not initialized. Call initEncryption() first."

(***************************************************************************)
(* The event bus (SpecU)                                                   *)
(***************************************************************************)
\* C28: an emit has invoked the callbacks that were subscribed when it
\* started, each once and in the order of their subscription.
C28EmitInvokesAll == last.op = "emit" => last.data.seen = [k \in 1..Len(last.data.start) |-> last.data.start[k].id]

\* C29: a callback subscribed with once is invoked at most once.
C29OnceAtMostOnce == \A k1, k2 \in 1..Len(invoked) : (invoked[k1].once /\ invoked[k1].id = invoked[k2].id) => k1 = k2

(***************************************************************************)
(* The two implementations of importData (SpecF)                           *)
(***************************************************************************)
\* both imports were run on the same prompts and versions
ImportedOnBoth == remote.done /\ pc = "idle" /\ last.op = "importData"

\* C30: the importData of the Firebase adapter and that of the local store,
\* run on the same stored prompts and versions with the same document and
\* merge flag, return the same counts and leave the same version records.
C30SameImport == ImportedOnBoth =>
    /\ last.ok = remote.ok
    /\ last.counts = remote.counts
    /\ versions = remote.versions

====
